---- MODULE Spec2Model ----
(***************************************************************************)
(* Task orchestration and resilience layer.                                *)
(*                                                                         *)
(* Part I   GitLockManager (services/git_lock.py) with its callers         *)
(*          tools/auto_merge.py and tools/review.py: processes racing for  *)
(*          the lock file .git/uz_factory.lock on a shared wall clock.     *)
(* Part II  AgentRunner (services/agent_runner.py): runner instances of    *)
(*          one task, the OS process table and the task's pid-file.        *)
(*                                                                         *)
(* Part III CircuitBreaker (services/circuit_breaker.py): threads calling  *)
(*          the class-level registry under its lock.                       *)
(* Part IV  CostTracker (services/cost_tracker.py): the daily ledger, the  *)
(*          budget check and the circuit it forces open.                   *)
(* Part V   TheBoss.monitor_task (agents/boss.py): the liveness monitor    *)
(*          over the task metadata and the runners of Part II.             *)
(*                                                                         *)
(* Part VI  CostTracker.record and get_report in full: the ledger entry as  *)
(*          IEEE 754 binary64 values, written by concurrent callers.       *)
(* Part VII IdempotencyStore (services/idempotency.py): callers of one     *)
(*          store file with a 24 hour time to live.                        *)
(* Part VIII tools/auto_merge.py and tools/cleanup_old_tasks.py: the merge *)
(*          sweep and the age-based cleanup over the task workspaces;      *)
(*          with workspace creation and the review tool's merge, the life  *)
(*          of a workspace and its branch (LifeSpec).                      *)
(* Part IX  tools/run_all_tasks.py (the batch run, BatchSpec) and the      *)
(*          async pipeline of agents/boss.py on the runner of Part II      *)
(*          (PipeSpec).                                                    *)
(*                                                                         *)
(* Each part has its own specification (GitSpec, RunnerSpec, CbSpec,       *)
(* CostSpec, MonSpec, LedgerSpec, IdemSpec, SweepSpec, LifeSpec,           *)
(* BatchSpec, PipeSpec); the variables of the other parts keep their       *)
(* initial values.                                                         *)
(***************************************************************************)
EXTENDS Integers, Sequences, FiniteSets, TLC

VARIABLES now, lock, pc, op, start, since, result, ran, fault

VARIABLES worktree, pidfile, logfile, proc, code, spawned, handle, rpc, call,
          target, sup, ret

gitVars == <<now, lock, pc, op, start, since, result, ran, fault>>

runVars == <<worktree, pidfile, logfile, proc, code, spawned, handle, rpc, call,
             target, sup, ret>>

VARIABLES circ, mutex, tpc, tsvc, tmp, last, clock

cbVars == <<circ, mutex, tpc, tsvc, tmp, last, clock>>

VARIABLES ledger, day, today, cest, cret, refused

costVars == <<ledger, day, today, cest, cret, refused>>

VARIABLES meta, mpc, mret, mseen, aged

monVars == <<meta, mpc, mret, mseen, aged>>

VARIABLES book, wpc, wcall, wdata, report

ledgerVars == <<book, wpc, wcall, wdata, report>>

VARIABLES idem, ipc, ikey, idata, iret, hour, recorded

idemVars == <<idem, ipc, ikey, idata, iret, hour, recorded>>

VARIABLES wdir, branch, inMain, tmeta, halfdays, spc, slist, sdry, tally, slast,
          cleaned, rv

sweepVars ==
    <<wdir, branch, inMain, tmeta, halfdays, spc, slist, sdry, tally, slast,
      cleaned, rv>>

VARIABLES bpc, bpar, bqueue, bactive, bproc, bstatus, belapsed, btally

batchVars == <<bpc, bpar, bqueue, bactive, bproc, bstatus, belapsed, btally>>

VARIABLES ppc, pstart, pstatus

pipeVars == <<ppc, pstart, pstatus>>

vars ==
    <<gitVars, runVars, cbVars, costVars, monVars, ledgerVars, idemVars,
      sweepVars, batchVars, pipeVars>>

\* What a step of one part leaves alone.
nonGitVars ==
    <<runVars, cbVars, costVars, monVars, ledgerVars, idemVars, sweepVars,
      batchVars, pipeVars>>
nonRunVars ==
    <<gitVars, cbVars, costVars, monVars, ledgerVars, idemVars, sweepVars,
      batchVars, pipeVars>>
nonCbVars ==
    <<gitVars, runVars, costVars, monVars, ledgerVars, idemVars, sweepVars,
      batchVars, pipeVars>>
nonCostVars ==
    <<gitVars, runVars, mutex, tpc, tsvc, tmp, monVars, ledgerVars, idemVars,
      sweepVars, batchVars, pipeVars>>
nonMonVars ==
    <<gitVars, costVars, circ, mutex, tpc, tsvc, tmp, last, ledgerVars, idemVars,
      sweepVars, batchVars, pipeVars>>
nonLedgerVars ==
    <<gitVars, runVars, cbVars, costVars, monVars, idemVars, sweepVars,
      batchVars, pipeVars>>
nonIdemVars ==
    <<gitVars, runVars, cbVars, costVars, monVars, ledgerVars, sweepVars,
      batchVars, pipeVars>>
nonSweepVars ==
    <<gitVars, runVars, cbVars, costVars, monVars, ledgerVars, idemVars,
      batchVars, pipeVars>>
nonBatchVars ==
    <<gitVars, runVars, cbVars, costVars, monVars, ledgerVars, idemVars,
      sweepVars, pipeVars>>
nonPipeVars ==
    <<gitVars, cbVars, costVars, monVars, ledgerVars, idemVars, sweepVars,
      batchVars>>

(***************************************************************************)
(* Part I: GitLockManager                                                  *)
(*                                                                         *)
(* Time is in seconds.  Every event falls on a multiple of Step, the       *)
(* shortest subprocess timeout of the code; time.sleep(0.5) is shorter     *)
(* than a step, so a sleeping caller retries at the next instant of the    *)
(* clock.  System calls take no time; git commands take any number of      *)
(* steps up to their subprocess timeout.                                   *)
(***************************************************************************)

\* Processes calling into the lock manager (each has its own GitLockManager).
Procs == {"p1", "p2"}

\* Horizon of the wall clock, in seconds.
MaxTime == 100

\* self.timeout, git_lock.py:29
LockTimeout == 30
\* the staleness threshold, git_lock.py:47
StaleThreshold == 60
\* subprocess timeouts of safe_commit
AddTimeout == 10
CommitTimeout == 30
PushTimeout == 60
\* subprocess timeouts of safe_merge
CheckoutTimeout == 10
MergeTimeout == 30
BranchDeleteTimeout == 10

Step == AddTimeout

\* The lock file: its owner (the pid written into it) and its mtime.
NoLock == [owner |-> "none", mtime |-> 0]

\* A lock file left at time 0 by a process that was killed while holding it.
Abandoned == [owner |-> "crashed", mtime |-> 0]

\* The calls a process can make: safe_commit(push=False), safe_commit(push=True),
\* safe_merge(delete_after=True) as auto_merge_task calls it, and review.py's
\* merge_branch.
Ops == {"commit", "commit_push", "merge", "review"}

Locked(o) == o \in {"commit", "commit_push", "merge"}

Cmds == {"add", "commit", "push", "checkout", "merge", "wt_remove", "branch_d"}

\* The timeout= argument of each subprocess.run; merge_branch passes none (0).
Timeout(o, c) ==
    IF o = "review" THEN 0
    ELSE CASE c = "add" -> AddTimeout
           [] c = "commit" -> CommitTimeout
           [] c = "push" -> PushTimeout
           [] c = "checkout" -> CheckoutTimeout
           [] c = "merge" -> MergeTimeout
           [] OTHER -> BranchDeleteTimeout

\* What a finished subprocess.run can yield: exit code 0, a non-zero exit code,
\* git commit's non-zero "nothing to commit", or an exception other than
\* TimeoutExpired ("exc").  "timeout" is TimeoutExpired.
Outcomes(c) ==
    IF c = "commit" THEN {"ok", "fail", "nothing", "exc"} ELSE {"ok", "fail", "exc"}

\* The command that follows c when c yielded out, or the value the call returns.
AfterCmd(o, c, out) ==
    IF o \in {"commit", "commit_push"} THEN
        CASE out \in {"exc", "timeout"} -> "False"
          [] c = "add" -> IF out = "ok" THEN "commit" ELSE "False"
          [] c = "commit" ->
               IF out = "nothing" THEN "True"
               ELSE IF out = "fail" THEN "False"
               ELSE IF o = "commit_push" THEN "push" ELSE "True"
          [] OTHER -> IF out = "ok" THEN "True" ELSE "False"
    ELSE IF o = "merge" THEN
        CASE out \in {"exc", "timeout"} -> "False"
          [] c = "checkout" -> IF out = "ok" THEN "merge" ELSE "False"
          [] c = "merge" ->
               IF out = "ok" THEN "branch_d" ELSE "False"
          [] OTHER -> "True"
    ELSE
        CASE out = "exc" -> "Raised"
          [] c = "checkout" -> IF out = "ok" THEN "merge" ELSE "False"
          [] c = "merge" -> IF out = "ok" THEN "wt_remove" ELSE "False"
          [] c = "wt_remove" -> "branch_d"
          [] OTHER -> "True"

FirstCmd(o) == IF o \in {"commit", "commit_push"} THEN "add" ELSE "checkout"

AcquireExpiredAtStale(p) == now - start[p] >= StaleThreshold

\* while time.time() - start < self.timeout
AcquireExpired(p) == now - start[p] >= LockTimeout

\* if time.time() - mtime > 60
IsStale(l) == now - l.mtime > StaleThreshold

ReleaseOnSuccessOnly(p, res) == IF res = "True" THEN NoLock ELSE lock

\* _release_lock in the finally clause of a call returning res: unlink whatever
\* file is at the lock path, ignoring errors.
ReleaseLock(p, res) == NoLock

GitInit0 ==
    /\ now = 0
    /\ lock \in {NoLock, Abandoned}
    /\ pc = [p \in Procs |-> "idle"]
    /\ op = [p \in Procs |-> "none"]
    /\ start = [p \in Procs |-> 0]
    /\ since = [p \in Procs |-> 0]
    /\ result = [p \in Procs |-> "none"]
    /\ ran = [p \in Procs |-> FALSE]
    /\ fault = [p \in Procs |-> FALSE]

\* A process enters safe_commit, safe_merge or merge_branch.  merge_branch
\* runs its first git command at once; the others enter _acquire_lock.
Call(p) ==
    /\ UNCHANGED nonGitVars
    /\ pc[p] = "idle"
    /\ \E o \in Ops :
        /\ op' = [op EXCEPT ![p] = o]
        /\ pc' = [pc EXCEPT ![p] = IF Locked(o) THEN "acquire" ELSE FirstCmd(o)]
        /\ ran' = [ran EXCEPT ![p] = ~Locked(o)]
        /\ start' = [start EXCEPT ![p] = IF Locked(o) THEN now ELSE 0]
    /\ UNCHANGED <<now, lock, since, result, fault>>

\* One pass of the while loop of _acquire_lock up to os.open: the loop ends
\* (the caller raises TimeoutError), or the exclusive create succeeds and the
\* first git command starts, or os.open raises FileExistsError.
TryLock(p) ==
    /\ UNCHANGED nonGitVars
    /\ pc[p] = "acquire"
    /\ IF AcquireExpired(p)
       THEN /\ pc' = [pc EXCEPT ![p] = "done"]
            /\ result' = [result EXCEPT ![p] = "TimeoutError"]
            /\ start' = [start EXCEPT ![p] = 0]
            /\ UNCHANGED <<lock, since, ran>>
       ELSE IF lock = NoLock
       THEN /\ lock' = [owner |-> p, mtime |-> now]
            /\ pc' = [pc EXCEPT ![p] = FirstCmd(op[p])]
            /\ since' = [since EXCEPT ![p] = now]
            /\ start' = [start EXCEPT ![p] = 0]
            /\ ran' = [ran EXCEPT ![p] = TRUE]
            /\ UNCHANGED result
       ELSE /\ pc' = [pc EXCEPT ![p] = "stat"]
            /\ UNCHANGED <<lock, start, since, result, ran>>
    /\ UNCHANGED <<now, op, fault>>

\* self.lock_file.stat() and the staleness test; a vanished file raises and
\* the bare except passes on to the sleep.
StatLock(p) ==
    /\ UNCHANGED nonGitVars
    /\ pc[p] = "stat"
    /\ IF lock # NoLock /\ IsStale(lock)
       THEN pc' = [pc EXCEPT ![p] = "unlink"]
       ELSE pc' = [pc EXCEPT ![p] = "sleep"]
    /\ since' = [since EXCEPT ![p] = now]
    /\ UNCHANGED <<now, lock, op, start, result, ran, fault>>

\* self.lock_file.unlink(); continue.  A vanished file raises and the bare
\* except passes on to the sleep.
UnlinkStale(p) ==
    /\ UNCHANGED nonGitVars
    /\ pc[p] = "unlink"
    /\ IF lock # NoLock
       THEN /\ lock' = NoLock
            /\ pc' = [pc EXCEPT ![p] = "acquire"]
       ELSE /\ pc' = [pc EXCEPT ![p] = "sleep"]
            /\ UNCHANGED lock
    /\ UNCHANGED <<now, op, start, since, result, ran, fault>>

\* time.sleep(0.5) has elapsed.
Wake(p) ==
    /\ UNCHANGED nonGitVars
    /\ pc[p] = "sleep"
    /\ now > since[p]
    /\ pc' = [pc EXCEPT ![p] = "acquire"]
    /\ UNCHANGED <<now, lock, op, start, since, result, ran, fault>>

\* The outcomes the callers treat as a failure of the sequence: an exception,
\* a timeout, a non-zero exit code of a command whose exit code is looked at.
Fails(c, out) ==
    \/ out \in {"exc", "timeout"}
    \/ out = "fail" /\ c \in {"add", "commit", "push", "checkout", "merge"}

\* The step a call takes when its running command yields out: the next
\* command starts, or the call returns, safe_commit and safe_merge through
\* finally: self._release_lock().
Proceed(p, out) ==
    LET nxt == AfterCmd(op[p], pc[p], out) IN
    /\ UNCHANGED nonGitVars
    /\ fault' = [fault EXCEPT ![p] = @ \/ Fails(pc[p], out)]
    /\ IF nxt \in Cmds
       THEN /\ pc' = [pc EXCEPT ![p] = nxt]
            /\ since' = [since EXCEPT ![p] = IF Locked(op[p]) THEN now ELSE 0]
            /\ UNCHANGED <<lock, result>>
       ELSE /\ pc' = [pc EXCEPT ![p] = "done"]
            /\ result' = [result EXCEPT ![p] = nxt]
            /\ since' = [since EXCEPT ![p] = 0]
            /\ lock' = IF Locked(op[p]) THEN ReleaseLock(p, nxt) ELSE lock
    /\ UNCHANGED <<now, op, start, ran>>

\* A git command ends before its timeout (merge_branch sets none).
FinishCmd(p) ==
    /\ pc[p] \in Cmds
    /\ Locked(op[p]) => now - since[p] < Timeout(op[p], pc[p])
    /\ \E out \in Outcomes(pc[p]) : Proceed(p, out)

\* subprocess.run raises TimeoutExpired.
TimeoutCmd(p) ==
    /\ pc[p] \in Cmds
    /\ Locked(op[p])
    /\ now - since[p] >= Timeout(op[p], pc[p])
    /\ Proceed(p, "timeout")

\* The process is killed inside the locked section: nothing releases the lock.
Crash(p) ==
    /\ UNCHANGED nonGitVars
    /\ pc[p] \in Cmds
    /\ Locked(op[p])
    /\ pc' = [pc EXCEPT ![p] = "crashed"]
    /\ since' = [since EXCEPT ![p] = 0]
    /\ UNCHANGED <<now, lock, op, start, result, ran, fault>>

\* The wall clock advances once every process is blocked in a sleep, in a git
\* command that has time left, or outside a call.
Tick ==
    /\ UNCHANGED nonGitVars
    /\ now + Step <= MaxTime
    /\ \A p \in Procs :
        /\ pc[p] \notin {"acquire", "stat", "unlink"}
        /\ pc[p] = "sleep" => now = since[p]
        /\ (pc[p] \in Cmds /\ Locked(op[p])) => now - since[p] < Timeout(op[p], pc[p])
    /\ now' = now + Step
    /\ UNCHANGED <<lock, pc, op, start, since, result, ran, fault>>

GitNext ==
    \/ \E p \in Procs : Call(p)
    \/ \E p \in Procs : TryLock(p)
    \/ \E p \in Procs : StatLock(p)
    \/ \E p \in Procs : UnlinkStale(p)
    \/ \E p \in Procs : Wake(p)
    \/ \E p \in Procs : FinishCmd(p)
    \/ \E p \in Procs : TimeoutCmd(p)
    \/ \E p \in Procs : Crash(p)
    \/ Tick

(***************************************************************************)
(* Part II: AgentRunner                                                    *)
(*                                                                         *)
(* One task.  Runners are AgentRunner instances for it, possibly in        *)
(* different interpreters.  A process spawned by a runner is its child:    *)
(* when it exits it stays in the process table as a zombie (os.kill(pid,   *)
(* 0) still succeeds) until the runner's Popen.poll() reaps it, or until   *)
(* the runner's handle is gone.  The timeouts of stop() and of             *)
(* wait_for_completion are positive and may run out after any pass of      *)
(* their loops.  logfile is the number of start banners agent.log holds,   *)
(* each followed by the output of the run it opened.                       *)
(***************************************************************************)

Runners == {"r1", "r2"}

\* Number of processes the task may spawn in one behaviour.
MaxPids == 2

Pids == 1..MaxPids

\* Exit codes of a process that ends by itself (also after SIGTERM).
ExitCodes == {0, 1}

\* Popen.returncode of a process ended by SIGKILL.
Sigkilled == -9

\* The pid-file holds a pid, or is missing, or is empty (opened for writing and
\* not yet written: its content does not parse).
NoFile == 0
Unparsable == -1

\* get_pid(): the pid in the pid-file, None (0) when the file is missing or
\* its content does not parse.
GetPid == IF pidfile > 0 THEN pidfile ELSE 0

\* _process_exists(pid): os.kill(pid, 0) succeeds for a running process and for
\* a zombie.
ProcessExists(pid) == proc[pid] # "none"

IsRunningByPidFile == GetPid # 0

\* is_running()
IsRunning == GetPid # 0 /\ ProcessExists(GetPid)

\* _cleanup(): remove the pid-file if it exists.
Cleanup == NoFile

\* What becomes of a process that ends: a zombie while the runner that spawned
\* it still holds its Popen handle.
Ended(pid) == IF \E r \in Runners : handle[r] = pid THEN "zombie" ELSE "none"

RunInit0 ==
    /\ worktree \in BOOLEAN
    /\ pidfile = NoFile
    /\ logfile = 0
    /\ proc = [i \in Pids |-> "none"]
    /\ code = [i \in Pids |-> 0]
    /\ spawned = 0
    /\ handle = [r \in Runners |-> 0]
    /\ rpc = [r \in Runners |-> "idle"]
    /\ call = [r \in Runners |-> "none"]
    /\ target = [r \in Runners |-> 0]
    /\ sup = [r \in Runners |-> 0]
    /\ ret = [r \in Runners |-> "none"]

\* A call of method c begins at position at.
Enter(r, c, at) ==
    /\ rpc[r] = "idle"
    /\ call' = [call EXCEPT ![r] = c]
    /\ rpc' = [rpc EXCEPT ![r] = at]
    /\ ret' = [ret EXCEPT ![r] = "none"]
    /\ UNCHANGED <<target, sup>>

\* The call returns v (or raises, v = "raised"); its locals are gone.
Return(r, v) ==
    /\ rpc' = [rpc EXCEPT ![r] = "idle"]
    /\ call' = [call EXCEPT ![r] = "none"]
    /\ ret' = [ret EXCEPT ![r] = v]
    /\ target' = [target EXCEPT ![r] = 0]
    /\ sup' = [sup EXCEPT ![r] = 0]

\* start(), stop(), wait_for_completion() or wait_for_completion_async() is
\* called (the async form enters its loop without the check of line 248).
RunnerCall(r) ==
    /\ UNCHANGED nonRunVars
    /\ \/ Enter(r, "start", "check")
       \/ Enter(r, "stop", "st_get")
       \/ Enter(r, "wait", "w_check")
       \/ Enter(r, "wait_async", "w_loop")
    /\ UNCHANGED <<worktree, pidfile, logfile, proc, code, spawned, handle>>

\* start(), lines 59-94: the two precondition checks, then the log file is
\* opened with mode "w" and the banner written.
StartCheck(r) ==
    /\ UNCHANGED nonRunVars
    /\ rpc[r] = "check"
    /\ IF ~worktree \/ IsRunning
       THEN /\ Return(r, "raised")
            /\ UNCHANGED logfile
       ELSE /\ rpc' = [rpc EXCEPT ![r] = "spawn"]
            /\ logfile' = 1
            /\ UNCHANGED <<call, ret, target, sup>>
    /\ UNCHANGED <<worktree, pidfile, proc, code, spawned, handle>>

\* start(), line 98: subprocess.Popen (an exception makes start() raise).  The
\* handle it replaces is dropped, and with it the zombie it may have kept.
StartSpawn(r) ==
    /\ UNCHANGED nonRunVars
    /\ rpc[r] = "spawn"
    /\ \/ /\ spawned < MaxPids
          /\ LET new == spawned + 1
                 old == handle[r] IN
              /\ spawned' = new
              /\ proc' = [i \in Pids |->
                            IF i = new THEN "run"
                            ELSE IF i = old /\ proc[i] = "zombie" THEN "none"
                            ELSE proc[i]]
              /\ handle' = [handle EXCEPT ![r] = new]
          /\ rpc' = [rpc EXCEPT ![r] = "pidopen"]
          /\ UNCHANGED <<call, ret, target, sup>>
       \/ /\ Return(r, "raised")
          /\ UNCHANGED <<proc, spawned, handle>>
    /\ UNCHANGED <<worktree, pidfile, logfile, code>>

\* start(), line 109: write_text opens the pid-file for writing (truncating
\* it) ...
StartPidOpen(r) ==
    /\ UNCHANGED nonRunVars
    /\ rpc[r] = "pidopen"
    /\ pidfile' = Unparsable
    /\ rpc' = [rpc EXCEPT ![r] = "pidwrite"]
    /\ UNCHANGED <<worktree, logfile, proc, code, spawned, handle, call, target,
                   sup, ret>>

\* ... and writes str(self.process.pid); start() returns the pid.
StartPidWrite(r) ==
    /\ UNCHANGED nonRunVars
    /\ rpc[r] = "pidwrite"
    /\ pidfile' = handle[r]
    /\ Return(r, "pid")
    /\ UNCHANGED <<worktree, logfile, proc, code, spawned, handle>>

\* stop() returns v; a wait_for_completion that called it returns False.
StopReturn(r, v) == Return(r, IF call[r] = "stop" THEN v ELSE "False")

\* stop(), lines 131-134: pid = self.get_pid(); without a pid it returns True.
StopGet(r) ==
    /\ UNCHANGED nonRunVars
    /\ rpc[r] = "st_get"
    /\ IF GetPid = 0
       THEN StopReturn(r, "True")
       ELSE /\ target' = [target EXCEPT ![r] = GetPid]
            /\ rpc' = [rpc EXCEPT ![r] = "st_term"]
            /\ UNCHANGED <<call, ret, sup>>
    /\ UNCHANGED <<worktree, pidfile, logfile, proc, code, spawned, handle>>

\* stop(), line 143: os.kill(pid, SIGTERM); ProcessLookupError lands in the
\* except clause (lines 164-167).
StopTerm(r) ==
    /\ UNCHANGED nonRunVars
    /\ rpc[r] = "st_term"
    /\ IF ProcessExists(target[r])
       THEN /\ rpc' = [rpc EXCEPT ![r] = "st_poll"]
            /\ UNCHANGED <<pidfile, call, ret, target, sup>>
       ELSE /\ pidfile' = Cleanup
            /\ StopReturn(r, "False")
    /\ UNCHANGED <<worktree, logfile, proc, code, spawned, handle>>

\* stop(), lines 147-152: a pass of the polling loop finds the process gone
\* (_cleanup, return True), or the passes found it until the timeout ran out.
StopPoll(r) ==
    /\ UNCHANGED nonRunVars
    /\ rpc[r] = "st_poll"
    /\ IF ~ProcessExists(target[r])
       THEN /\ pidfile' = Cleanup
            /\ StopReturn(r, "True")
       ELSE /\ rpc' = [rpc EXCEPT ![r] = "st_kill"]
            /\ UNCHANGED <<pidfile, call, ret, target, sup>>
    /\ UNCHANGED <<worktree, logfile, proc, code, spawned, handle>>

\* stop(), lines 158-162: os.kill(pid, SIGKILL), _cleanup, return False (also
\* through the except clause when the process is gone by now).
StopKill(r) ==
    /\ UNCHANGED nonRunVars
    /\ rpc[r] = "st_kill"
    /\ IF proc[target[r]] = "run"
       THEN /\ proc' = [proc EXCEPT ![target[r]] = Ended(target[r])]
            /\ code' = [code EXCEPT ![target[r]] = Sigkilled]
       ELSE UNCHANGED <<proc, code>>
    /\ pidfile' = Cleanup
    /\ StopReturn(r, "False")
    /\ UNCHANGED <<worktree, logfile, spawned, handle>>

\* wait_for_completion, lines 248-250: with no Popen handle and no running
\* process it returns False at once.
WaitCheck(r) ==
    /\ UNCHANGED nonRunVars
    /\ rpc[r] = "w_check"
    /\ IF handle[r] = 0 /\ ~IsRunning
       THEN Return(r, "False")
       ELSE /\ rpc' = [rpc EXCEPT ![r] = "w_loop"]
            /\ UNCHANGED <<call, ret, target, sup>>
    /\ UNCHANGED <<worktree, pidfile, logfile, proc, code, spawned, handle>>

\* The process a pass of the wait loop looks at: the own child, else the one
\* named by the pid-file.
Watched(r) == IF handle[r] # 0 THEN handle[r] ELSE GetPid

\* What the first pass of a wait yields when called in the current state: the
\* value it returns and the pid-file it leaves, or "pending" when the pass
\* finds the process running.  The blocking form (form = "wait") begins with
\* the test of lines 248-250, the async form with its loop (lines 293-303).
FirstPass(r, form) ==
    LET h == handle[r] IN
    IF form = "wait" /\ h = 0 /\ ~IsRunning
    THEN [ret |-> "False", pidfile |-> pidfile]
    ELSE IF h # 0 /\ proc[h] # "run"
    THEN [ret |-> IF code[h] = 0 THEN "True" ELSE "False", pidfile |-> Cleanup]
    ELSE IF h = 0 /\ ~IsRunning
    THEN [ret |-> "True", pidfile |-> Cleanup]
    ELSE [ret |-> "pending", pidfile |-> pidfile]

\* The loop of wait_for_completion (lines 254-269) and of its async form
\* (lines 293-305): a pass polls the own child (reaping it) or tests
\* is_running, and returns; or the passes found the process running until the
\* timeout ran out and stop() is called (lines 272-273).
WaitLoop(r) ==
    /\ UNCHANGED nonRunVars
    /\ rpc[r] = "w_loop"
    /\ LET h == handle[r] IN
       IF h # 0 /\ proc[h] # "run"
       THEN /\ proc' = [proc EXCEPT ![h] = "none"]
            /\ pidfile' = Cleanup
            /\ Return(r, IF code[h] = 0 THEN "True" ELSE "False")
       ELSE IF h = 0 /\ ~IsRunning
       THEN /\ pidfile' = Cleanup
            /\ Return(r, "True")
            /\ UNCHANGED proc
       ELSE /\ rpc' = [rpc EXCEPT ![r] = "st_get"]
            /\ sup' = [sup EXCEPT ![r] = Watched(r)]
            /\ UNCHANGED <<proc, pidfile, call, ret, target>>
    /\ UNCHANGED <<worktree, logfile, code, spawned, handle>>

\* A running process of the task ends by itself with an exit code.
ProcExit(i) ==
    /\ UNCHANGED nonRunVars
    /\ proc[i] = "run"
    /\ \E c \in ExitCodes : code' = [code EXCEPT ![i] = c]
    /\ proc' = [proc EXCEPT ![i] = Ended(i)]
    /\ UNCHANGED <<worktree, pidfile, logfile, spawned, handle, rpc, call, target,
                   sup, ret>>

\* The runner object goes away (its interpreter exits) and a fresh
\* AgentRunner(task_id, agent) takes its place: self.process is None.
Forget(r) ==
    /\ UNCHANGED nonRunVars
    /\ rpc[r] = "idle"
    /\ handle[r] # 0
    /\ handle' = [handle EXCEPT ![r] = 0]
    /\ ret' = [ret EXCEPT ![r] = "none"]
    /\ proc' = [i \in Pids |->
                  IF i = handle[r] /\ proc[i] = "zombie" THEN "none" ELSE proc[i]]
    /\ UNCHANGED <<worktree, pidfile, logfile, code, spawned, rpc, call, target,
                   sup>>

RunnerNext ==
    \/ \E r \in Runners : RunnerCall(r)
    \/ \E r \in Runners : StartCheck(r)
    \/ \E r \in Runners : StartSpawn(r)
    \/ \E r \in Runners : StartPidOpen(r)
    \/ \E r \in Runners : StartPidWrite(r)
    \/ \E r \in Runners : StopGet(r)
    \/ \E r \in Runners : StopTerm(r)
    \/ \E r \in Runners : StopPoll(r)
    \/ \E r \in Runners : StopKill(r)
    \/ \E r \in Runners : WaitCheck(r)
    \/ \E r \in Runners : WaitLoop(r)
    \/ \E i \in Pids : ProcExit(i)
    \/ \E r \in Runners : Forget(r)

(***************************************************************************)
(* Part III: CircuitBreaker (services/circuit_breaker.py)                  *)
(*                                                                         *)
(* The circuits of one interpreter (the class attribute _circuits), keyed  *)
(* by service name, and threads holding CircuitBreaker instances.  The     *)
(* counters successes and last_failure_time are written and reported but   *)
(* never read by a decision, and are left out.  Time is in seconds; the    *)
(* clock advances by half_open_after.                                      *)
(***************************************************************************)

Threads == {"t1", "t2"}

Services == {"vertex_ai", "other"}

\* Horizon of time.time().
MaxClock == 180

\* Cap of the failure counter.
MaxCount == 7

\* CircuitState.half_open_after, circuit_breaker.py:42
HalfOpenAfter == 60

\* CircuitState.max_failures, circuit_breaker.py:40
DefaultMaxFailures == 5

\* opened_at is None.
NotOpened == -1

\* is_open(), read at the current time.
IsOpen(n) ==
    /\ circ[n].opened_at # NotOpened
    /\ ~(clock - circ[n].opened_at > HalfOpenAfter)

HalfOpenAtWindowEnd(n) ==
    /\ circ[n].opened_at # NotOpened
    /\ clock - circ[n].opened_at >= HalfOpenAfter

\* is_half_open()
IsHalfOpen(n) ==
    /\ circ[n].opened_at # NotOpened
    /\ clock - circ[n].opened_at > HalfOpenAfter

\* get_status()["status"]
GetStatus(n) ==
    IF circ[n].opened_at = NotOpened THEN "CLOSED"
    ELSE IF IsHalfOpen(n) THEN "HALF_OPEN"
    ELSE "OPEN"

LockIgnored == TRUE

\* with self._lock: the class-wide lock can be taken.
LockFree == mutex = "none"

OpensPastThreshold(c, f) ==
    [c EXCEPT !.failures = f,
              !.opened_at = IF f > c.max_failures /\ c.opened_at = NotOpened
                            THEN clock ELSE c.opened_at]

\* record_failure, lines 118-124, storing f as the new failure count.
AfterFailure(c, f) ==
    [c EXCEPT !.failures = f,
              !.opened_at = IF f >= c.max_failures /\ c.opened_at = NotOpened
                            THEN clock ELSE c.opened_at]

SuccessClearsCount(c) == [c EXCEPT !.opened_at = NotOpened, !.failures = 0]

SuccessKeepsCount(c) ==
    IF c.opened_at # NotOpened THEN [c EXCEPT !.opened_at = NotOpened] ELSE c

\* record_success, lines 109-112
AfterSuccess(c) ==
    IF c.opened_at # NotOpened
    THEN [c EXCEPT !.opened_at = NotOpened, !.failures = 0]
    ELSE c

\* reset, lines 134-137
AfterReset(c) == [c EXCEPT !.failures = 0, !.opened_at = NotOpened]

\* The call that completed last: which method, on which circuit, and the
\* status the circuit had when the call acted.
Done(o, n) ==
    [op |-> o, svc |-> n, was |-> IF n = "none" THEN "none" ELSE GetStatus(n)]

\* The circuits as CircuitBreaker.__init__ creates them: vertex_ai with the
\* threshold of get_vertex_circuit_breaker, the other with a threshold its
\* first constructor chose.
CbInit0 ==
    /\ \E m \in {1, 2} :
          circ = [n \in Services |->
                    [failures |-> 0, opened_at |-> NotOpened,
                     max_failures |-> IF n = "vertex_ai"
                                      THEN DefaultMaxFailures ELSE m]]
    /\ mutex = "none"
    /\ tpc = [t \in Threads |-> "idle"]
    /\ tsvc = [t \in Threads |-> "none"]
    /\ tmp = [t \in Threads |-> 0]
    /\ last = Done("none", "none")
    /\ clock = 0

\* A thread calls record_failure() on an instance for service n and reaches
\* the with statement.
FailureCall(t) ==
    /\ UNCHANGED nonCbVars
    /\ tpc[t] = "idle"
    /\ \E n \in Services :
          /\ circ[n].failures < MaxCount
          /\ tsvc' = [tsvc EXCEPT ![t] = n]
    /\ tpc' = [tpc EXCEPT ![t] = "lock"]
    /\ UNCHANGED <<circ, mutex, tmp, last, clock>>

\* record_failure: the lock is taken and state.failures is read (the load of
\* state.failures += 1).
FailureRead(t) ==
    /\ UNCHANGED nonCbVars
    /\ tpc[t] = "lock"
    /\ LockFree
    /\ mutex' = t
    /\ tmp' = [tmp EXCEPT ![t] = circ[tsvc[t]].failures]
    /\ tpc' = [tpc EXCEPT ![t] = "write"]
    /\ UNCHANGED <<circ, tsvc, last, clock>>

\* record_failure: the incremented count is stored, the circuit opens if the
\* threshold is reached, and the lock is released.
FailureWrite(t) ==
    /\ UNCHANGED nonCbVars
    /\ tpc[t] = "write"
    /\ circ' = [circ EXCEPT ![tsvc[t]] = AfterFailure(@, tmp[t] + 1)]
    /\ mutex' = "none"
    /\ tpc' = [tpc EXCEPT ![t] = "idle"]
    /\ tsvc' = [tsvc EXCEPT ![t] = "none"]
    /\ tmp' = [tmp EXCEPT ![t] = 0]
    /\ last' = Done("failure", tsvc[t])
    /\ UNCHANGED clock

\* record_success() on an instance for service n, under the lock.
RecordSuccess(t) ==
    /\ UNCHANGED nonCbVars
    /\ tpc[t] = "idle"
    /\ LockFree
    /\ \E n \in Services :
          /\ circ' = [circ EXCEPT ![n] = AfterSuccess(@)]
          /\ last' = Done("success", n)
    /\ UNCHANGED <<mutex, tpc, tsvc, tmp, clock>>

\* reset() on an instance for service n, under the lock.
Reset(t) ==
    /\ UNCHANGED nonCbVars
    /\ tpc[t] = "idle"
    /\ LockFree
    /\ \E n \in Services :
          /\ circ' = [circ EXCEPT ![n] = AfterReset(@)]
          /\ last' = Done("reset", n)
    /\ UNCHANGED <<mutex, tpc, tsvc, tmp, clock>>

\* time.time() advances.
ClockTick ==
    /\ UNCHANGED nonCbVars
    /\ clock + HalfOpenAfter <= MaxClock
    /\ clock' = clock + HalfOpenAfter
    /\ UNCHANGED <<circ, mutex, tpc, tsvc, tmp, last>>

CbNext ==
    \/ \E t \in Threads : FailureCall(t)
    \/ \E t \in Threads : FailureRead(t)
    \/ \E t \in Threads : FailureWrite(t)
    \/ \E t \in Threads : RecordSuccess(t)
    \/ \E t \in Threads : Reset(t)
    \/ ClockTick

(***************************************************************************)
(* Part IV: CostTracker (services/cost_tracker.py)                         *)
(*                                                                         *)
(* The ledger file data/costs.json, keyed by day, and one tracker instance *)
(* (the get_cost_tracker singleton, or a CostTracker a new interpreter     *)
(* constructs).  Amounts are exact, in dollars.  check() reaches the       *)
(* vertex_ai circuit of Part III.  The alert of _alert changes no state    *)
(* and is left out.                                                        *)
(***************************************************************************)

\* Calendar days of one behaviour.
MaxDay == 2

Days == 1..MaxDay

\* Cap of a day's recorded spend.
MaxSpend == 75

\* self.daily_budget, the default of DAILY_BUDGET_USD, cost_tracker.py:44
DailyBudget == 50

\* Costs of the recorded requests and estimates passed to check().
Costs == {10, 25}

Estimates == {0, 1, 25}

\* get_spent_today(): the spend stored under self.today.
GetSpentToday == ledger[today]

\* check(), line 81
OverBudget(e) == GetSpentToday + e > DailyBudget

\* One record_failure() of check(), lines 88-92.
ForcedFailure(c) == AfterFailure(c, c.failures + 1)

CostInit0 ==
    /\ ledger = [d \in Days |-> 0]
    /\ day = 1
    /\ today = 1
    /\ cest = 0
    /\ cret = "none"
    /\ refused = {}

\* check(e): over budget, five record_failure() calls on the vertex_ai
\* circuit and the value False; else True.  refused collects the estimates
\* refused since midnight.
Check ==
    /\ UNCHANGED nonCostVars
    /\ circ["vertex_ai"].failures <= MaxCount
    /\ \E e \in Estimates :
          /\ cest' = e
          /\ IF OverBudget(e)
             THEN /\ cret' = "False"
                  /\ refused' = refused \cup {e}
                  /\ circ' = [circ EXCEPT !["vertex_ai"] =
                        ForcedFailure(ForcedFailure(ForcedFailure(
                            ForcedFailure(ForcedFailure(@)))))]
                  /\ last' = Done("failure", "vertex_ai")
             ELSE /\ cret' = "True"
                  /\ UNCHANGED <<circ, last, refused>>
    /\ UNCHANGED <<ledger, day, today, clock>>

\* record(tokens, model) of a request costing c: added to the entry of
\* self.today.
Record ==
    /\ UNCHANGED nonCostVars
    /\ \E c \in Costs :
          /\ ledger[today] + c <= MaxSpend
          /\ ledger' = [ledger EXCEPT ![today] = @ + c]
    /\ UNCHANGED <<day, today, cest, cret, refused, circ, last, clock>>

\* Midnight (UTC) passes.
DayChange ==
    /\ UNCHANGED nonCostVars
    /\ day < MaxDay
    /\ day' = day + 1
    /\ refused' = {}
    /\ UNCHANGED <<ledger, today, cest, cret, circ, last, clock>>

\* A new interpreter constructs its CostTracker: self.today is the current
\* day.
NewTracker ==
    /\ UNCHANGED nonCostVars
    /\ today # day
    /\ today' = day
    /\ UNCHANGED <<ledger, day, cest, cret, refused, circ, last, clock>>

CostNext ==
    \/ Check
    \/ Record
    \/ DayChange
    \/ NewTracker
    \/ \E t \in Threads : RecordSuccess(t)
    \/ ClockTick

(***************************************************************************)
(* Part V: the liveness monitor (TheBoss.monitor_task, agents/boss.py)     *)
(*                                                                         *)
(* One task of Part II with its metadata record META.yml.  The starter     *)
(* runner is the AgentRunner of the pipeline that starts (or, reusing the  *)
(* workspace, restarts) the task's agent; monitor_task runs in another     *)
(* thread or interpreter and stops the agent through a fresh AgentRunner.  *)
(* The agent's heartbeat thread (agents/base.py) writes last_heartbeat.    *)
(* WorkspaceManager is not part of the sources: the metadata record and    *)
(* its get_meta/update_meta follow section 4.1 of the specification.       *)
(***************************************************************************)

StarterRunner == "r1"

MonitorRunner == "r2"

\* heartbeat_timeout, boss.py:271
HeartbeatTimeout == 30

\* self.name of the agent the task runs.
AgentName == "cpo"

\* The record create() writes: a status, no last_heartbeat, no reason, no
\* agent; title stands for the fields no update names.
InitialMeta ==
    [status |-> "running", reason |-> "none", agent |-> "none",
     title |-> "idea",
     last_heartbeat |-> [kind |-> "none", at |-> 0]]

OverwriteMeta(m, partial) ==
    [k \in DOMAIN m |-> IF k \in DOMAIN partial THEN partial[k] ELSE InitialMeta[k]]

\* update_meta(task_id, partial): the fields of partial replace those of the
\* record, the others stay.
UpdateMeta(m, partial) ==
    [k \in DOMAIN m |-> IF k \in DOMAIN partial THEN partial[k] ELSE m[k]]

\* get_meta(task_id) returns a record while the workspace exists.
HasMeta == worktree

\* monitor_task, lines 297-300: the timestamp parses and its age exceeds the
\* timeout.
Stale(hb) == hb.kind = "iso" /\ clock - hb.at > HeartbeatTimeout

MonInit0 ==
    /\ meta = InitialMeta
    /\ mpc = "idle"
    /\ mret = "none"
    /\ mseen = {}
    /\ aged = {}

\* The pipeline calls start() on the task's runner (boss.py, line 232).
TaskStart ==
    /\ UNCHANGED nonRunVars
    /\ Enter(StarterRunner, "start", "check")
    /\ UNCHANGED <<worktree, pidfile, logfile, proc, code, spawned, handle>>

\* The heartbeat thread of a running agent writes last_heartbeat (an ISO
\* timestamp; an agent in another technology may write one that
\* datetime.fromisoformat rejects) and status = running.
Heartbeat(i) ==
    /\ UNCHANGED nonMonVars
    /\ proc[i] = "run"
    /\ HasMeta
    /\ \E k \in {"iso", "bad"} :
          meta' = UpdateMeta(meta, [last_heartbeat |-> [kind |-> k, at |-> clock],
                                    status |-> "running",
                                    agent |-> AgentName])
    /\ UNCHANGED <<mpc, mret, mseen, aged, clock, runVars>>

\* A running agent finishes its work: as its last act it writes the final
\* status into the record, and its process exits with code 0.
Complete(i) ==
    /\ UNCHANGED nonMonVars
    /\ proc[i] = "run"
    /\ HasMeta
    /\ meta' = UpdateMeta(meta, [status |-> "completed"])
    /\ proc' = [proc EXCEPT ![i] = Ended(i)]
    /\ code' = [code EXCEPT ![i] = 0]
    /\ UNCHANGED <<mpc, mret, mseen, aged, clock, worktree, pidfile, logfile,
                   spawned, handle, rpc, call, target, sup, ret>>

\* monitor_task up to the call of stop(): no record, False; no heartbeat, a
\* fresh one or an unparsable one, True; a stale one, a fresh AgentRunner's
\* stop() begins.
MonitorCall ==
    /\ UNCHANGED nonMonVars
    /\ mpc = "idle"
    /\ rpc[MonitorRunner] = "idle"
    /\ mseen' = {i \in Pids : proc[i] = "run"}
    /\ IF ~HasMeta
       THEN mret' = "False" /\ UNCHANGED <<mpc, rpc, call, ret>>
       ELSE IF Stale(meta.last_heartbeat)
       THEN /\ mpc' = "stopping"
            /\ mret' = "none"
            /\ rpc' = [rpc EXCEPT ![MonitorRunner] = "st_get"]
            /\ call' = [call EXCEPT ![MonitorRunner] = "stop"]
            /\ ret' = [ret EXCEPT ![MonitorRunner] = "none"]
       ELSE mret' = "True" /\ UNCHANGED <<mpc, rpc, call, ret>>
    /\ UNCHANGED <<meta, aged, clock, worktree, pidfile, logfile, proc, code,
                   spawned, handle, target, sup>>

\* monitor_task, lines 308-313: stop() has returned; update_meta and return
\* False.
MonitorFinish ==
    /\ UNCHANGED nonMonVars
    /\ mpc = "stopping"
    /\ rpc[MonitorRunner] = "idle"
    /\ meta' = UpdateMeta(meta, [status |-> "failed",
                                 reason |-> "heartbeat_timeout"])
    /\ mpc' = "idle"
    /\ mret' = "False"
    /\ UNCHANGED <<mseen, aged, clock, runVars>>

\* The clock advances, by more than the heartbeat timeout, while no call of
\* start(), stop() or monitor_task is under way (they take seconds at most);
\* the processes running now will have run for more than the timeout.
MonTick ==
    /\ UNCHANGED nonMonVars
    /\ mpc = "idle"
    /\ \A r \in Runners : rpc[r] = "idle"
    /\ clock + HalfOpenAfter <= MaxClock
    /\ clock' = clock + HalfOpenAfter
    /\ aged' = {i \in Pids : proc[i] = "run"}
    /\ UNCHANGED <<meta, mpc, mret, mseen, runVars>>

MonNext ==
    \/ TaskStart
    \/ \E r \in {StarterRunner} : StartCheck(r)
    \/ \E r \in {StarterRunner} : StartSpawn(r)
    \/ \E r \in {StarterRunner} : StartPidOpen(r)
    \/ \E r \in {StarterRunner} : StartPidWrite(r)
    \/ \E r \in {StarterRunner} : Forget(r)
    \/ \E i \in Pids : ProcExit(i)
    \/ \E i \in Pids : Heartbeat(i)
    \/ \E i \in Pids : Complete(i)
    \/ MonitorCall
    \/ \E r \in {MonitorRunner} : StopGet(r)
    \/ \E r \in {MonitorRunner} : StopTerm(r)
    \/ \E r \in {MonitorRunner} : StopPoll(r)
    \/ \E r \in {MonitorRunner} : StopKill(r)
    \/ MonitorFinish
    \/ MonTick

(***************************************************************************)
(* Part VI: the ledger entry in full (services/cost_tracker.py)            *)
(*                                                                         *)
(* The entry of self.today in data/costs.json as record() writes it and    *)
(* get_report() reads it: spent (a Python float), tokens and requests.     *)
(* Several writers (threads, or trackers of several processes, all on the  *)
(* same day) call record(); each call loads the file, updates the entry in *)
(* memory and saves the file.  Floats are computed bit for bit.            *)
(***************************************************************************)

\* Natural numbers of any size: sequences of digits in base LimbBase, least
\* significant first, without leading zeros.
LimbBase == 2^14

RECURSIVE Limbs(_)
Limbs(n) == IF n = 0 THEN <<>> ELSE <<n % LimbBase>> \o Limbs(n \div LimbBase)

RECURSIVE Trim(_)
Trim(a) ==
    IF a = <<>> \/ a[Len(a)] # 0 THEN a ELSE Trim(SubSeq(a, 1, Len(a) - 1))

\* a + b
AddL(a, b) ==
    LET top == IF Len(a) > Len(b) THEN Len(a) ELSE Len(b)
        digit(u, i) == IF i <= Len(u) THEN u[i] ELSE 0
        RECURSIVE go(_, _)
        go(i, carry) ==
            IF i > top THEN Limbs(carry)
            ELSE LET t == digit(a, i) + digit(b, i) + carry
                 IN  <<t % LimbBase>> \o go(i + 1, t \div LimbBase)
    IN  go(1, 0)

\* a - b, for a >= b
SubL(a, b) ==
    LET digit(u, i) == IF i <= Len(u) THEN u[i] ELSE 0
        RECURSIVE go(_, _)
        go(i, borrow) ==
            IF i > Len(a) THEN <<>>
            ELSE LET t == a[i] - digit(b, i) - borrow
                 IN  <<t % LimbBase>> \o go(i + 1, IF t < 0 THEN 1 ELSE 0)
    IN  Trim(go(1, 0))

\* a * k for one digit k
MulDigit(a, k) ==
    LET RECURSIVE go(_, _)
        go(i, carry) ==
            IF i > Len(a) THEN Limbs(carry)
            ELSE LET t == a[i] * k + carry
                 IN  <<t % LimbBase>> \o go(i + 1, t \div LimbBase)
    IN  Trim(go(1, 0))

\* a * b
MulL(a, b) ==
    LET RECURSIVE go(_)
        go(j) ==
            IF j > Len(b) THEN <<>>
            ELSE AddL([i \in 1..(j - 1) |-> 0] \o MulDigit(a, b[j]), go(j + 1))
    IN  Trim(go(1))

\* Quotient and remainder of a by d < 2^16: long division from the most
\* significant digit.
DivDigit(a, d) ==
    LET RECURSIVE go(_, _)
        go(i, rem) ==
            IF i = 0 THEN [q |-> <<>>, r |-> rem]
            ELSE LET t == rem * LimbBase + a[i]
                     rest == go(i - 1, t % d)
                 IN  [q |-> rest.q \o <<t \div d>>, r |-> rest.r]
        res == go(Len(a), 0)
    IN  [q |-> Trim(res.q), r |-> res.r]

\* a * 2^k
ShiftUp(a, k) ==
    MulDigit([i \in 1..(k \div 14) |-> 0] \o a, 2^(k % 14))

\* a \div 2^k, and whether a bit was shifted out
ShiftDown(a, k) ==
    LET whole == k \div 14
        kept == SubSeq(a, whole + 1, Len(a))
        res == DivDigit(kept, 2^(k % 14))
    IN  [q |-> res.q,
         nz |-> res.r # 0 \/ \E i \in 1..whole : i <= Len(a) /\ a[i] # 0]

\* Number of bits of a
BitLen(a) ==
    IF a = <<>> THEN 0
    ELSE 14 * (Len(a) - 1)
         + CHOOSE k \in 1..14 : 2^(k - 1) <= a[Len(a)] /\ a[Len(a)] < 2^k

\* An IEEE 754 binary64 value (Python's float; positive and normal here):
\* m * 2^e with a mantissa m of MantBits bits, or zero.
MantBits == 53

Zero == [m |-> <<>>, e |-> 0]

\* The binary64 value nearest to a / (ds[1] * ... * ds[n]) * 2^e, ties to
\* even: the rounding of every float operation and of a decimal literal.
Nearest(a, ds, e) ==
    IF Trim(a) = <<>> THEN Zero
    ELSE
    LET RECURSIVE DsBits(_)
        DsBits(i) == IF i > Len(ds) THEN 0 ELSE BitLen(Limbs(ds[i])) + DsBits(i + 1)
        want == MantBits + 2 + DsBits(1) - BitLen(Trim(a))
        k == IF want > 0 THEN want ELSE 0
        RECURSIVE Divide(_, _)
        Divide(x, i) ==
            IF i > Len(ds) THEN x
            ELSE LET res == DivDigit(x.q, ds[i])
                 IN  Divide([q |-> res.q, nz |-> x.nz \/ res.r # 0], i + 1)
        quot == Divide([q |-> ShiftUp(Trim(a), k), nz |-> FALSE], 1)
        drop == BitLen(quot.q) - MantBits
        half == ShiftDown(quot.q, drop - 1)
        mant == ShiftDown(half.q, 1).q
        up == /\ half.q[1] % 2 = 1
              /\ quot.nz \/ half.nz \/ mant[1] % 2 = 1
        m1 == IF up THEN AddL(mant, <<1>>) ELSE mant
    IN  IF BitLen(m1) > MantBits
        THEN [m |-> ShiftDown(m1, 1).q, e |-> e - k + drop + 1]
        ELSE [m |-> m1, e |-> e - k + drop]

\* float(n) of an int n
FromInt(n) == Nearest(Limbs(n), <<>>, 0)

\* x / d for an integral d, x * y, x + y and x - y (for x >= y) in binary64
FDiv(x, d) == Nearest(x.m, <<d>>, x.e)

FMul(x, y) == Nearest(MulL(x.m, y.m), <<>>, x.e + y.e)

FAdd(x, y) ==
    LET e0 == IF x.e < y.e THEN x.e ELSE y.e
    IN  IF x = Zero THEN y
        ELSE IF y = Zero THEN x
        ELSE Nearest(AddL(ShiftUp(x.m, x.e - e0), ShiftUp(y.m, y.e - e0)),
                     <<>>, e0)

FSub(x, y) ==
    LET e0 == IF x.e < y.e THEN x.e ELSE y.e
    IN  IF y = Zero THEN x
        ELSE Nearest(SubL(ShiftUp(x.m, x.e - e0), ShiftUp(y.m, y.e - e0)),
                     <<>>, e0)

Writers == {"w1", "w2"}

\* Cap of the request count of the entry.
MaxRequests == 2

\* Arguments of record().
TokenCounts == {1000, 3000}

Models == {"gemini-1.5-flash", "unlisted"}

\* COST_PER_1K.get(model, 0.00035), in units of 0.00001 dollars.
CostPer1K(model) ==
    CASE model = "gemini-2.0-flash" -> 35
      [] model = "gemini-2.0-pro" -> 250
      [] model = "gemini-1.5-flash" -> 10
      [] model = "gemini-1.5-pro" -> 125
      [] OTHER -> 35

\* The float of a price literal.
PriceFloat(model) == Nearest(Limbs(CostPer1K(model)), <<1000, 100>>, 0)

\* record, line 111: cost = (tokens / 1000) * cost_per_1k
CostOf(tokens, model) == FMul(FDiv(FromInt(tokens), 1000), PriceFloat(model))

\* The entry record() creates when self.today is not in the file.
EmptyEntry == [spent |-> Zero, tokens |-> 0, requests |-> 0]

\* record, lines 118-120, on the loaded entry.
Credit(entry, tokens, model) ==
    [spent |-> FAdd(entry.spent, CostOf(tokens, model)),
     tokens |-> entry.tokens + tokens,
     requests |-> entry.requests + 1]

\* get_report(), lines 154-162
GetReport(entry) ==
    [spent |-> entry.spent,
     remaining |-> FSub(FromInt(DailyBudget), entry.spent),
     tokens |-> entry.tokens,
     requests |-> entry.requests,
     percentage |-> FMul(FDiv(entry.spent, DailyBudget), FromInt(100))]

\* A writer outside record().
NoCall == [tokens |-> 0, model |-> "none"]

LedgerInit0 ==
    /\ book = EmptyEntry
    /\ wpc = [w \in Writers |-> "idle"]
    /\ wcall = [w \in Writers |-> NoCall]
    /\ wdata = [w \in Writers |-> EmptyEntry]
    /\ report = GetReport(EmptyEntry)

\* record(tokens, model) up to line 120: the file is loaded and the entry
\* updated in memory.
RecordLoad(w) ==
    /\ UNCHANGED nonLedgerVars
    /\ wpc[w] = "idle"
    /\ book.requests < MaxRequests
    /\ \E t \in TokenCounts, mo \in Models :
          /\ wcall' = [wcall EXCEPT ![w] = [tokens |-> t, model |-> mo]]
          /\ wdata' = [wdata EXCEPT ![w] = Credit(book, t, mo)]
    /\ wpc' = [wpc EXCEPT ![w] = "loaded"]
    /\ UNCHANGED <<book, report>>

\* record, line 122: _save(data) overwrites the file, and the call returns.
RecordSave(w) ==
    /\ UNCHANGED nonLedgerVars
    /\ wpc[w] = "loaded"
    /\ book' = wdata[w]
    /\ wpc' = [wpc EXCEPT ![w] = "idle"]
    /\ wcall' = [wcall EXCEPT ![w] = NoCall]
    /\ wdata' = [wdata EXCEPT ![w] = EmptyEntry]
    /\ UNCHANGED report

\* get_report()
Report ==
    /\ UNCHANGED nonLedgerVars
    /\ report' = GetReport(book)
    /\ UNCHANGED <<book, wpc, wcall, wdata>>

LedgerNext ==
    \/ \E w \in Writers : RecordLoad(w)
    \/ \E w \in Writers : RecordSave(w)
    \/ Report

(***************************************************************************)
(* Part VII: IdempotencyStore (services/idempotency.py)                    *)
(*                                                                         *)
(* The file data/idempotency.json, keyed by "<key>:<operation>", and store *)
(* instances (of one or several processes) calling into it.  record() and  *)
(* invalidate() load the file, change the copy and save it.  Time is in    *)
(* hours and advances by half the TTL.  recorded remembers, per key, the   *)
(* recorded_at of the last record() that returned and that no invalidate() *)
(* of the key has followed.                                                *)
(***************************************************************************)

Callers == {"s1", "s2"}

Keys == {"k1", "k2"}

\* result_path: None or a path.
Paths == {"None", "prd.md"}

\* ttl_hours, idempotency.py:34
TtlHours == 24

\* Horizon of datetime.utcnow(), in hours.
MaxHour == 36

HourStep == TtlHours \div 2

\* A key that is not in the file.
NoRecord == [kind |-> "none", at |-> 0, path |-> "None"]

\* _cleanup_expired, lines 64-66: recorded_at parses and is later than the
\* cutoff.
Kept(entry) == entry.kind = "iso" /\ entry.at > hour - TtlHours

\* _cleanup_expired(data)
CleanupExpired(data) ==
    [k \in Keys |-> IF Kept(data[k]) THEN data[k] ELSE NoRecord]

IdemInit0 ==
    /\ idem = [k \in Keys |-> NoRecord]
    /\ ipc = [c \in Callers |-> "idle"]
    /\ ikey = [c \in Callers |-> "none"]
    /\ idata = [c \in Callers |-> [k \in Keys |-> NoRecord]]
    /\ iret = [c \in Callers |-> "none"]
    /\ hour = 0
    /\ recorded = [k \in Keys |-> {}]

\* check(key, operation)
StoreCheck(c) ==
    /\ UNCHANGED nonIdemVars
    /\ ipc[c] = "idle"
    /\ \E k \in Keys :
          /\ ikey' = [ikey EXCEPT ![c] = k]
          /\ iret' = [iret EXCEPT ![c] =
                IF CleanupExpired(idem)[k].kind # "none" THEN "True" ELSE "False"]
    /\ UNCHANGED <<idem, ipc, idata, hour, recorded>>

\* get_cached_result(key, operation)
GetCachedResult(c) ==
    /\ UNCHANGED nonIdemVars
    /\ ipc[c] = "idle"
    /\ \E k \in Keys :
          /\ ikey' = [ikey EXCEPT ![c] = k]
          /\ iret' = [iret EXCEPT ![c] =
                IF idem[k].kind # "none" THEN idem[k].path ELSE "None"]
    /\ UNCHANGED <<idem, ipc, idata, hour, recorded>>

\* record(key, operation, result_path) up to line 124: the file is loaded,
\* the expired entries are dropped from the copy and the entry is set.
StoreRecordLoad(c) ==
    /\ UNCHANGED nonIdemVars
    /\ ipc[c] = "idle"
    /\ \E k \in Keys, p \in Paths :
          /\ ikey' = [ikey EXCEPT ![c] = k]
          /\ idata' = [idata EXCEPT ![c] =
                [CleanupExpired(idem) EXCEPT ![k] =
                    [kind |-> "iso", at |-> hour, path |-> p]]]
    /\ ipc' = [ipc EXCEPT ![c] = "record"]
    /\ iret' = [iret EXCEPT ![c] = "none"]
    /\ UNCHANGED <<idem, hour, recorded>>

\* record, line 126: _save(data), and the call returns.
StoreRecordSave(c) ==
    /\ UNCHANGED nonIdemVars
    /\ ipc[c] = "record"
    /\ idem' = idata[c]
    /\ recorded' = [recorded EXCEPT ![ikey[c]] = {idata[c][ikey[c]].at}]
    /\ ipc' = [ipc EXCEPT ![c] = "idle"]
    /\ idata' = [idata EXCEPT ![c] = [k \in Keys |-> NoRecord]]
    /\ UNCHANGED <<ikey, iret, hour>>

\* invalidate(key, operation), lines 141-145: the file is loaded; a key that
\* is not in it ends the call, else the key is deleted from the copy.
InvalidateLoad(c) ==
    /\ UNCHANGED nonIdemVars
    /\ ipc[c] = "idle"
    /\ \E k \in Keys :
          /\ ikey' = [ikey EXCEPT ![c] = k]
          /\ IF idem[k].kind # "none"
             THEN /\ idata' = [idata EXCEPT ![c] = [idem EXCEPT ![k] = NoRecord]]
                  /\ ipc' = [ipc EXCEPT ![c] = "invalidate"]
                  /\ UNCHANGED recorded
             ELSE /\ recorded' = [recorded EXCEPT ![k] = {}]
                  /\ UNCHANGED <<idata, ipc>>
    /\ iret' = [iret EXCEPT ![c] = "none"]
    /\ UNCHANGED <<idem, hour>>

\* invalidate, line 146: _save(data), and the call returns.
InvalidateSave(c) ==
    /\ UNCHANGED nonIdemVars
    /\ ipc[c] = "invalidate"
    /\ idem' = idata[c]
    /\ recorded' = [recorded EXCEPT ![ikey[c]] = {}]
    /\ ipc' = [ipc EXCEPT ![c] = "idle"]
    /\ idata' = [idata EXCEPT ![c] = [k \in Keys |-> NoRecord]]
    /\ UNCHANGED <<ikey, iret, hour>>

\* Half a TTL passes while no call is under way.
HourTick ==
    /\ UNCHANGED nonIdemVars
    /\ \A c \in Callers : ipc[c] = "idle"
    /\ hour + HourStep <= MaxHour
    /\ hour' = hour + HourStep
    /\ UNCHANGED <<idem, ipc, ikey, idata, iret, recorded>>

IdemNext ==
    \/ \E c \in Callers : StoreCheck(c)
    \/ \E c \in Callers : GetCachedResult(c)
    \/ \E c \in Callers : StoreRecordLoad(c)
    \/ \E c \in Callers : StoreRecordSave(c)
    \/ \E c \in Callers : InvalidateLoad(c)
    \/ \E c \in Callers : InvalidateSave(c)
    \/ HourTick

(***************************************************************************)
(* Part VIII  The merge sweep and the age-based cleanup                     *)
(*            (tools/auto_merge.py, tools/cleanup_old_tasks.py)             *)
(*                                                                         *)
(* A workspace is a working directory (wdir) with the branch                *)
(* feat/<task_id> and the task metadata; inMain says whether the branch    *)
(* has been merged into main.  The sweep lists the workspaces once and     *)
(* then handles them one by one (spc, slist, sdry, tally); slast is what   *)
(* the last handled workspace went through.  Time is counted in half days  *)
(* since the workspaces were created.  cleaned is the count a cleanup pass *)
(* prints.  rv is the task the review tool is merging and the git command  *)
(* its merge_branch has reached.                                           *)
(***************************************************************************)
Tasks == {"t1", "t2"}

TaskOrder == <<"t1", "t2">>

MinXp == 80

MaxAgeDays == 7

MaxHalfDays == 16

\* xp_reward in the metadata: absent ({}) or one number.
Rewards == {{}, {MinXp - 1}, {MinXp}}

NewMeta == [status |-> "running", xp_reward |-> {}]

\* meta.get("xp_reward", 0) or 0
XpOf(m) == IF m.xp_reward = {} THEN 0 ELSE CHOOSE n \in m.xp_reward : TRUE

ShouldAutoMergeAbove(m, min_xp) == m.status = "completed" /\ XpOf(m) > min_xp
ShouldAutoMerge(m, min_xp) == m.status = "completed" /\ XpOf(m) >= min_xp

\* The workspaces list_workspaces reports, each with its metadata.
RECURSIVE ListFrom(_)
ListFrom(order) ==
    IF order = <<>> THEN <<>>
    ELSE LET t == Head(order)
         IN  IF wdir[t]
             THEN <<[task_id |-> t, meta |-> tmeta[t]]>> \o ListFrom(Tail(order))
             ELSE ListFrom(Tail(order))

ListWorkspaces == ListFrom(TaskOrder)

\* What safe_merge(branch, "main", delete_after=True) returns when the lock was
\* acquired (got) and its three git commands yielded o1, o2, o3; "Raised" is
\* the TimeoutError of acquire.
SafeMerge(got, o1, o2, o3) ==
    IF ~got THEN "Raised"
    ELSE LET a == AfterCmd("merge", "checkout", o1)
         IN  IF a # "merge" THEN a
             ELSE LET b == AfterCmd("merge", "merge", o2)
                  IN  IF b # "branch_d" THEN b
                      ELSE AfterCmd("merge", "branch_d", o3)

GitOutcomes(c) == Outcomes(c) \cup {"timeout"}

\* remove(task_id, force=True) takes the git lock like every create and remove.
RemoveOutcomes == {"ok", "lock_timeout"}

NoStep == [task |-> "none", res |-> "none", merged |-> FALSE, rem |-> "none"]

NoPass == [removed |-> 0, skipped |-> 0]

\* The review tool is not merging.
NoReview == [task |-> "none", cmd |-> "none"]

ZeroTally == [merged |-> 0, skipped |-> 0, failed |-> 0]

SweepInit0 ==
    /\ wdir = [t \in Tasks |-> TRUE]
    /\ branch = [t \in Tasks |-> TRUE]
    /\ inMain = [t \in Tasks |-> FALSE]
    /\ tmeta = [t \in Tasks |-> NewMeta]
    /\ halfdays = 0
    /\ spc = "idle"
    /\ slist = <<>>
    /\ sdry = FALSE
    /\ tally = ZeroTally
    /\ slast = NoStep
    /\ cleaned = NoPass
    /\ rv = NoReview

\* The agent of a task ends: it writes the final status and the score.
TaskFinish(t) ==
    /\ wdir[t]
    /\ tmeta[t].status = "running"
    /\ \E st \in {"completed", "failed"}, xp \in Rewards :
          tmeta' = [tmeta EXCEPT ![t] = [status |-> st, xp_reward |-> xp]]
    /\ UNCHANGED <<wdir, branch, inMain, halfdays, spc, slist, sdry, tally, slast,
                   cleaned>>
    /\ UNCHANGED nonSweepVars
    /\ UNCHANGED rv

\* Time passes: a first step of max_age_days, then half days.
HalfDay ==
    /\ halfdays < MaxHalfDays
    /\ halfdays' = IF halfdays = 0 THEN 2 * MaxAgeDays ELSE halfdays + 1
    /\ UNCHANGED <<wdir, branch, inMain, tmeta, spc, slist, sdry, tally, slast,
                   cleaned>>
    /\ UNCHANGED nonSweepVars
    /\ UNCHANGED rv

\* run_auto_merge up to the loop.
SweepStart ==
    /\ spc = "idle"
    /\ \E dry \in BOOLEAN : sdry' = dry
    /\ slist' = ListWorkspaces
    /\ tally' = ZeroTally
    /\ slast' = NoStep
    /\ spc' = "loop"
    /\ UNCHANGED <<wdir, branch, inMain, tmeta, halfdays, cleaned>>
    /\ UNCHANGED nonSweepVars
    /\ UNCHANGED rv

\* auto_merge_task removes the workspace when safe_merge returned res.
RemovesUnlessRaised(res) == res # "Raised"
Removes(res) == res = "True"

\* One turn of the loop of run_auto_merge, auto_merge_task included.
SweepTask ==
    /\ spc = "loop"
    /\ slist # <<>>
    /\ LET ws == Head(slist)
           t == ws.task_id
       IN  /\ slist' = Tail(slist)
           /\ IF ~ShouldAutoMerge(ws.meta, MinXp) THEN
                 /\ tally' = [tally EXCEPT !.skipped = @ + 1]
                 /\ slast' = [NoStep EXCEPT !.task = t]
                 /\ UNCHANGED <<wdir, branch, inMain>>
              ELSE IF sdry THEN
                 /\ tally' = [tally EXCEPT !.merged = @ + 1]
                 /\ slast' = [NoStep EXCEPT !.task = t]
                 /\ UNCHANGED <<wdir, branch, inMain>>
              ELSE
                 \E got \in BOOLEAN, o1 \in GitOutcomes("checkout"),
                    o2 \in GitOutcomes("merge"), o3 \in GitOutcomes("branch_d"),
                    rem \in RemoveOutcomes :
                    LET res == SafeMerge(got, o1, o2, o3)
                        didMerge == got /\ o1 = "ok" /\ o2 = "ok"
                        didDelete == didMerge /\ o3 = "ok"
                        called == Removes(res)
                        removed == called /\ rem = "ok"
                    IN  /\ o2 = "ok" => branch[t]
                        /\ inMain' = [inMain EXCEPT ![t] = @ \/ didMerge]
                        /\ branch' = [branch EXCEPT
                                        ![t] = @ /\ ~didDelete /\ ~removed]
                        /\ wdir' = [wdir EXCEPT ![t] = @ /\ ~removed]
                        /\ tally' = IF removed
                                    THEN [tally EXCEPT !.merged = @ + 1]
                                    ELSE [tally EXCEPT !.failed = @ + 1]
                        /\ slast' = [task |-> t, res |-> res, merged |-> didMerge,
                                     rem |-> IF called THEN rem ELSE "none"]
    /\ UNCHANGED <<tmeta, halfdays, spc, sdry, cleaned>>
    /\ UNCHANGED nonSweepVars
    /\ UNCHANGED rv

\* run_auto_merge returns the tally.
SweepEnd ==
    /\ spc = "loop"
    /\ slist = <<>>
    /\ spc' = "idle"
    /\ UNCHANGED <<wdir, branch, inMain, tmeta, halfdays, slist, sdry, tally, slast,
                   cleaned>>
    /\ UNCHANGED nonSweepVars
    /\ UNCHANGED rv

\* (now - created).days
AgeDays == halfdays \div 2

\* The workspaces a cleanup pass goes on to remove.
Due(t, max_age_days) ==
    /\ wdir[t]
    /\ tmeta[t].status \in {"completed", "failed"}
    /\ AgeDays > max_age_days

\* cleanup(max_age_days, dry_run) as a whole; rem is how each remove ends.  A
\* workspace counts as removed in a dry run and when its removal completes.
CleanupWith(dry, rem) ==
    LET gone == {t \in Tasks : Due(t, MaxAgeDays) /\ ~dry /\ rem[t] = "ok"}
        counted == {t \in Tasks : Due(t, MaxAgeDays) /\ (dry \/ rem[t] = "ok")}
        listed == {t \in Tasks : wdir[t]}
    IN  /\ wdir' = [t \in Tasks |-> wdir[t] /\ t \notin gone]
        /\ branch' = [t \in Tasks |-> branch[t] /\ t \notin gone]
        /\ cleaned' = [removed |-> Cardinality(counted),
                       skipped |-> Cardinality(listed \ counted)]
        /\ UNCHANGED <<inMain, tmeta, halfdays, spc, slist, sdry, tally, slast>>
    /\ UNCHANGED nonSweepVars
    /\ UNCHANGED rv

CleanupPass(dry) == \E rem \in [Tasks -> RemoveOutcomes] : CleanupWith(dry, rem)

\* No workspace has been created yet.
LifeInit0 ==
    /\ wdir = [t \in Tasks |-> FALSE]
    /\ branch = [t \in Tasks |-> FALSE]
    /\ inMain = [t \in Tasks |-> FALSE]
    /\ tmeta = [t \in Tasks |-> NewMeta]
    /\ halfdays = 0
    /\ spc = "idle"
    /\ slist = <<>>
    /\ sdry = FALSE
    /\ tally = ZeroTally
    /\ slast = NoStep
    /\ cleaned = NoPass
    /\ rv = NoReview

\* WorkspaceManager.create(task_id, ...): working directory, branch and
\* metadata record come into being together.  A task id that has been merged
\* is not used again.
Create(t) ==
    /\ ~wdir[t] /\ ~branch[t] /\ ~inMain[t]
    /\ wdir' = [wdir EXCEPT ![t] = TRUE]
    /\ branch' = [branch EXCEPT ![t] = TRUE]
    /\ inMain' = [inMain EXCEPT ![t] = FALSE]
    /\ tmeta' = [tmeta EXCEPT ![t] = NewMeta]
    /\ UNCHANGED <<halfdays, spc, slist, sdry, tally, slast, cleaned, rv>>
    /\ UNCHANGED nonSweepVars

\* review_task approves task t and calls merge_branch(feat/<t>, t).
ReviewCall(t) ==
    /\ rv = NoReview
    /\ branch[t]
    /\ rv' = [task |-> t, cmd |-> FirstCmd("review")]
    /\ UNCHANGED <<wdir, branch, inMain, tmeta, halfdays, spc, slist, sdry, tally,
                   slast, cleaned>>
    /\ UNCHANGED nonSweepVars

\* merge_branch, lines 74-97: the git command it has reached ends with out.
\* git worktree remove is run only while the directory exists; its exit code
\* and that of git branch -d are not looked at.
ReviewCmd ==
    /\ rv # NoReview
    /\ LET t == rv.task
           c == rv.cmd
       IN  \E out \in Outcomes(c) :
              LET skipped == c = "wt_remove" /\ ~wdir[t]
                  done == out = "ok" /\ ~skipped
                  next == AfterCmd("review", c, IF skipped THEN "ok" ELSE out)
              IN  /\ (c \in {"merge", "branch_d"} /\ out = "ok") => branch[t]
                  /\ inMain' = [inMain EXCEPT ![t] = @ \/ (c = "merge" /\ done)]
                  /\ wdir' = [wdir EXCEPT ![t] = @ /\ ~(c = "wt_remove" /\ done)]
                  /\ branch' = [branch EXCEPT ![t] = @ /\ ~(c = "branch_d" /\ done)]
                  /\ rv' = IF next \in {"True", "False", "Raised"}
                           THEN NoReview ELSE [task |-> t, cmd |-> next]
    /\ UNCHANGED <<tmeta, halfdays, spc, slist, sdry, tally, slast, cleaned>>
    /\ UNCHANGED nonSweepVars

\* Creation, the merge sweep and the review tool's merge.
LifeNext ==
    \/ \E t \in Tasks : Create(t)
    \/ \E t \in Tasks : TaskFinish(t)
    \/ SweepStart
    \/ SweepTask
    \/ SweepEnd
    \/ \E t \in Tasks : ReviewCall(t)
    \/ ReviewCmd

SweepNext ==
    \/ \E t \in Tasks : TaskFinish(t)
    \/ HalfDay
    \/ SweepStart
    \/ SweepTask
    \/ SweepEnd
    \/ \E dry \in BOOLEAN : CleanupPass(dry)

(***************************************************************************)
(* Part IX: batch run (tools/run_all_tasks.py)                             *)
(*                                                                         *)
(* run_all_tasks(parallel, wait=True, timeout) starts one AgentRunner per  *)
(* pending task, at most `parallel` at a time, and polls is_running of the *)
(* runners it started every PollInterval seconds.  Time is in seconds.     *)
(* bproc[t] is the process of task t: "none", "run", or "zombie" (ended,   *)
(* not reaped by the runner that keeps its Popen handle).                  *)
(***************************************************************************)
PollInterval == 2

BatchTimeout == 4

MaxElapsed == 8

MaxParallel == 2

ZeroBatch == [completed |-> 0, failed |-> 0, pending |-> 0]

BatchInit0 ==
    /\ bpc = "idle"
    /\ bpar = 1
    /\ bqueue = <<>>
    /\ bactive = {}
    /\ bproc = [t \in Tasks |-> "none"]
    /\ bstatus \in [Tasks -> {"backlog", "completed"}]
    /\ belapsed = [t \in Tasks |-> 0]
    /\ btally = ZeroBatch

\* get_pending_tasks(wm): the task ids with status "backlog", in list order.
GetPendingTasks == SelectSeq(TaskOrder, LAMBDA t : bstatus[t] = "backlog")

\* is_running() of the runner of task t: start() wrote its pid-file and
\* nothing in the loop removes it, so the answer is that of os.kill(pid, 0).
BatchIsRunning(t) == bproc[t] # "none"

\* The test the loop applies to an active task (line 94).
LeavesActive(t) == ~BatchIsRunning(t)

\* run_all_tasks(parallel, wait=True, timeout=BatchTimeout), lines 53-70.
BatchCall ==
    /\ bpc = "idle"
    /\ \E par \in 1..MaxParallel : bpar' = par
    /\ LET pending == GetPendingTasks
       IN  /\ bqueue' = pending
           /\ btally' = [ZeroBatch EXCEPT !.pending = Len(pending)]
           /\ bpc' = IF pending = <<>> THEN "done" ELSE "fill"
    /\ UNCHANGED <<bactive, bproc, bstatus, belapsed>>
    /\ UNCHANGED nonBatchVars

\* One pass of the inner loop, lines 74-84: the next task is started, or its
\* start() raises and it is counted as failed.
BatchStart ==
    /\ bpc = "fill"
    /\ Cardinality(bactive) < bpar
    /\ bqueue # <<>>
    /\ LET t == Head(bqueue)
       IN  /\ bqueue' = Tail(bqueue)
           /\ \/ /\ bproc' = [bproc EXCEPT ![t] = "run"]
                 /\ bactive' = bactive \cup {t}
                 /\ belapsed' = [belapsed EXCEPT ![t] = 0]
                 /\ UNCHANGED btally
              \/ /\ btally' = [btally EXCEPT !.failed = @ + 1]
                 /\ UNCHANGED <<bproc, bactive, belapsed>>
    /\ UNCHANGED <<bpc, bpar, bstatus>>
    /\ UNCHANGED nonBatchVars

\* Lines 91-108: every active task whose runner is not running is counted by
\* its status and leaves the active set.
BatchPoll ==
    /\ bpc = "fill"
    /\ ~(Cardinality(bactive) < bpar /\ bqueue # <<>>)
    /\ LET over == {t \in bactive : LeavesActive(t)}
           ok == {t \in over : bstatus[t] = "completed"}
       IN  /\ bactive' = bactive \ over
           /\ btally' = [btally EXCEPT !.completed = @ + Cardinality(ok),
                                       !.failed = @ + Cardinality(over \ ok)]
           /\ bpc' = IF bactive' # {} THEN "sleep"
                     ELSE IF bqueue # <<>> THEN "fill" ELSE "done"
    /\ UNCHANGED <<bpar, bqueue, bproc, bstatus, belapsed>>
    /\ UNCHANGED nonBatchVars

\* time.sleep(2), line 109.
BatchSleep ==
    /\ bpc = "sleep"
    /\ belapsed' = [t \in Tasks |->
                      IF t \in bactive /\ belapsed[t] + PollInterval <= MaxElapsed
                      THEN belapsed[t] + PollInterval ELSE belapsed[t]]
    /\ bpc' = "fill"
    /\ UNCHANGED <<bpar, bqueue, bactive, bproc, bstatus, btally>>
    /\ UNCHANGED nonBatchVars

\* The agent of task t ends, having left a status in the task's record.  The
\* runner that started it keeps the Popen handle and never polls it: under
\* Unix the child stays a zombie, for which os.kill(pid, 0) succeeds (line
\* 325); under Windows tasklist no longer shows it (lines 316-322).
BatchProcExit(t) ==
    /\ bproc[t] = "run"
    /\ \E z \in {"zombie", "none"} : bproc' = [bproc EXCEPT ![t] = z]
    /\ \E st \in {"running", "completed", "failed"} :
          bstatus' = [bstatus EXCEPT ![t] = st]
    /\ UNCHANGED <<bpc, bpar, bqueue, bactive, belapsed, btally>>
    /\ UNCHANGED nonBatchVars

BatchLoop == BatchCall \/ BatchStart \/ BatchPoll \/ BatchSleep

BatchNext ==
    \/ BatchCall
    \/ BatchStart
    \/ BatchPoll
    \/ BatchSleep
    \/ \E t \in Tasks : BatchProcExit(t)

(***************************************************************************)
(* The async pipeline (agents/boss.py, _run_v2_pipeline_async) on the      *)
(* runner of Part II.                                                      *)
(***************************************************************************)
PipeInit0 ==
    /\ ppc = "idle"
    /\ pstart = "none"
    /\ pstatus = "none"

\* The runner the pipeline creates for its one agent, "cpo" (lines 336-339).
PipeRunner == "r1"

\* What `success` becomes from the gathered results (line 359).
AllTrue(res) == res = "True"

\* Lines 328-345: the workspace is created (or, if that raises, a path is
\* assumed) and start() of the fresh runner is called.
PipeBegin ==
    /\ ppc = "idle"
    /\ handle[PipeRunner] = 0
    /\ Enter(PipeRunner, "start", "check")
    /\ ppc' = "start"
    /\ UNCHANGED <<pstart, pstatus>>
    /\ UNCHANGED <<worktree, pidfile, logfile, proc, code, spawned, handle>>
    /\ UNCHANGED nonPipeVars

\* Lines 343-354: start() has returned or raised (the exception is printed and
\* dropped); wait_for_completion_async(timeout=300) of the runner is awaited.
PipeWait ==
    /\ ppc = "start"
    /\ rpc[PipeRunner] = "idle"
    /\ pstart' = IF ret[PipeRunner] = "raised" THEN "raised" ELSE "ok"
    /\ Enter(PipeRunner, "wait_async", "w_loop")
    /\ ppc' = "wait"
    /\ UNCHANGED pstatus
    /\ UNCHANGED <<worktree, pidfile, logfile, proc, code, spawned, handle>>
    /\ UNCHANGED nonPipeVars

\* Lines 356-360: the status is PASS when every result is True.
PipeEnd ==
    /\ ppc = "wait"
    /\ rpc[PipeRunner] = "idle"
    /\ pstatus' = IF AllTrue(ret[PipeRunner]) THEN "PASS" ELSE "PARTIAL"
    /\ ppc' = "done"
    /\ UNCHANGED pstart
    /\ UNCHANGED runVars
    /\ UNCHANGED nonPipeVars

\* The pipeline and, beside it, the runners of other interpreters on the same
\* task.
PipeNext ==
    \/ PipeBegin
    \/ PipeWait
    \/ PipeEnd
    \/ \E r \in Runners \ {PipeRunner} : RunnerCall(r)
    \/ \E r \in Runners : StartCheck(r)
    \/ \E r \in Runners : StartSpawn(r)
    \/ \E r \in Runners : StartPidOpen(r)
    \/ \E r \in Runners : StartPidWrite(r)
    \/ \E r \in Runners : StopGet(r)
    \/ \E r \in Runners : StopTerm(r)
    \/ \E r \in Runners : StopPoll(r)
    \/ \E r \in Runners : StopKill(r)
    \/ \E r \in Runners : WaitLoop(r)
    \/ \E r \in Runners \ {PipeRunner} : WaitCheck(r)
    \/ \E i \in Pids : ProcExit(i)
    \/ \E r \in Runners \ {PipeRunner} : Forget(r)

\* The other part at rest.
RunIdle == RunInit0 /\ worktree = FALSE

BatchIdle == BatchInit0 /\ bstatus = [t \in Tasks |-> "backlog"]

GitIdle == GitInit0 /\ lock = NoLock

CbIdle == CbInit0 /\ circ["other"].max_failures = 1

GitInit ==
    GitInit0 /\ RunIdle /\ CbIdle /\ CostInit0 /\ MonInit0 /\ LedgerInit0 /\ IdemInit0
    /\ SweepInit0 /\ BatchIdle /\ PipeInit0

GitSpec == GitInit /\ [][GitNext]_vars

RunnerInit ==
    RunInit0 /\ GitIdle /\ CbIdle /\ CostInit0 /\ MonInit0 /\ LedgerInit0 /\ IdemInit0
    /\ SweepInit0 /\ BatchIdle /\ PipeInit0

RunnerSpec == RunnerInit /\ [][RunnerNext]_vars

CbInit ==
    CbInit0 /\ GitIdle /\ RunIdle /\ CostInit0 /\ MonInit0 /\ LedgerInit0 /\ IdemInit0
    /\ SweepInit0 /\ BatchIdle /\ PipeInit0

CbSpec == CbInit /\ [][CbNext]_vars

CostInit ==
    CostInit0 /\ GitIdle /\ RunIdle /\ CbIdle /\ MonInit0 /\ LedgerInit0 /\ IdemInit0
    /\ SweepInit0 /\ BatchIdle /\ PipeInit0

MonInit ==
    MonInit0 /\ RunInit0 /\ GitIdle /\ CbIdle /\ CostInit0 /\ LedgerInit0 /\ IdemInit0
    /\ SweepInit0 /\ BatchIdle /\ PipeInit0

MonSpec == MonInit /\ [][MonNext]_vars

CostSpec == CostInit /\ [][CostNext]_vars

LedgerInit ==
    /\ LedgerInit0 /\ GitIdle /\ RunIdle /\ CbIdle /\ CostInit0 /\ MonInit0
    /\ IdemInit0 /\ SweepInit0 /\ BatchIdle /\ PipeInit0

LedgerSpec == LedgerInit /\ [][LedgerNext]_vars

IdemInit ==
    /\ IdemInit0 /\ GitIdle /\ RunIdle /\ CbIdle /\ CostInit0 /\ MonInit0
    /\ LedgerInit0 /\ SweepInit0 /\ BatchIdle /\ PipeInit0

IdemSpec == IdemInit /\ [][IdemNext]_vars

SweepInit ==
    /\ SweepInit0 /\ GitIdle /\ RunIdle /\ CbIdle /\ CostInit0 /\ MonInit0
    /\ LedgerInit0 /\ IdemInit0 /\ BatchIdle /\ PipeInit0

SweepSpec == SweepInit /\ [][SweepNext]_vars

LifeInit ==
    /\ LifeInit0 /\ GitIdle /\ RunIdle /\ CbIdle /\ CostInit0 /\ MonInit0
    /\ LedgerInit0 /\ IdemInit0 /\ BatchIdle /\ PipeInit0

LifeSpec == LifeInit /\ [][LifeNext]_vars

BatchInit ==
    /\ BatchInit0
    /\ GitIdle /\ RunIdle /\ CbIdle /\ CostInit0 /\ MonInit0 /\ LedgerInit0
    /\ IdemInit0 /\ SweepInit0 /\ PipeInit0

PipeInit ==
    /\ PipeInit0 /\ RunInit0 /\ GitIdle /\ CbIdle /\ CostInit0 /\ MonInit0
    /\ LedgerInit0 /\ IdemInit0 /\ SweepInit0 /\ BatchIdle

PipeSpec == PipeInit /\ [][PipeNext]_vars

\* The loop of run_all_tasks keeps taking its steps; nothing is assumed of the
\* agents' processes.
BatchSpec == BatchInit /\ [][BatchNext]_vars /\ WF_vars(BatchLoop)

(***************************************************************************)
(* Properties of Part I                                                    *)
(***************************************************************************)

Acquiring(p) == pc[p] \in {"acquire", "stat", "unlink", "sleep"}

InCommitSection(p) == op[p] \in {"commit", "commit_push"} /\ pc[p] \in Cmds

InMergeSection(p) ==
    op[p] \in {"merge", "review"} /\ pc[p] \in {"checkout", "merge", "branch_d"}

\* C1: two concurrent safe_commit calls are never both inside the locked
\* add/commit/push section.
C1_MutualExclusion ==
    \A p, q \in Procs : p # q => ~(InCommitSection(p) /\ InCommitSection(q))

\* C2: every checkout/merge/branch-delete sequence (safe_merge and review.py's
\* merge_branch) runs while its process owns the lock file.
C2_MergeUnderLock ==
    \A p \in Procs : InMergeSection(p) => lock.owner = p

\* C3: when safe_commit or safe_merge returns after having acquired the lock,
\* the lock file it created does not exist, and a failed git command, a timeout
\* or an exception has made it return False.
C3_LockReleasedOnReturn ==
    \A p \in Procs :
        (pc[p] = "done" /\ Locked(op[p]) /\ result[p] # "TimeoutError") =>
            /\ lock.owner # p
            /\ fault[p] => result[p] = "False"

C3_Witness ==
    \E p \in Procs :
        /\ pc[p] = "done" /\ Locked(op[p])
        /\ fault[p] /\ result[p] = "False" /\ lock = NoLock

\* C4: a caller is in _acquire_lock for at most the timeout plus one retry
\* sleep, and a caller that got TimeoutError ran no git command and owns no
\* lock file.
C4_AcquireBounded ==
    \A p \in Procs :
        /\ Acquiring(p) => now - start[p] <= LockTimeout + Step
        /\ result[p] = "TimeoutError" =>
               pc[p] = "done" /\ ~ran[p] /\ lock.owner # p

C4_Witness ==
    \E p \in Procs :
        result[p] = "TimeoutError" /\ now >= LockTimeout /\ lock # NoLock

\* C5: a retrying caller that finds the lock file older than the threshold goes
\* on to remove it, and a retrying caller never removes a lock file that is not
\* older than the threshold.
C5_OnlyStaleRemoved ==
    [][\A p \in Procs :
          /\ (pc[p] = "stat" /\ pc'[p] # pc[p] /\ lock # NoLock /\ IsStale(lock))
                => pc'[p] = "unlink"
          /\ (pc[p] = "unlink" /\ pc'[p] = "acquire" /\ lock # NoLock)
                => IsStale(lock)]_vars

(***************************************************************************)
(* Properties of Part II                                                   *)
(***************************************************************************)

StopPcs == {"st_get", "st_term", "st_poll", "st_kill"}

\* The step in which the call of runner r returns or raises.
Returns(r) == rpc[r] # "idle" /\ rpc'[r] = "idle"

\* The process a returning wait was about.
Supervised(r) == IF rpc[r] \in StopPcs THEN sup[r] ELSE Watched(r)

\* C6: wait_for_completion on a task that has a process returns True if and
\* only if it did not time out and that process has exited with code 0; this
\* for the runner that started the process and for a fresh runner.
C6_WaitResult ==
    [][\A r \in Runners :
          (Returns(r) /\ call[r] = "wait" /\ Supervised(r) # 0) =>
              (ret'[r] = "True" <=>
                  /\ rpc[r] \notin StopPcs
                  /\ proc'[Supervised(r)] # "run"
                  /\ code'[Supervised(r)] = 0)]_vars

\* C7: when a wait (blocking or async) that timed out returns, it returns
\* False, the process it supervised is not running and the pid-file does not
\* exist.
C7_TimeoutEscalation ==
    [][\A r \in Runners :
          (Returns(r) /\ call[r] \in {"wait", "wait_async"} /\ rpc[r] \in StopPcs) =>
              /\ ret'[r] = "False"
              /\ proc'[sup[r]] # "run"
              /\ pidfile' = NoFile]_vars

C9_StopRemovesPidFile ==
    [][\A r \in Runners :
          (Returns(r) /\ call[r] = "stop") => pidfile' = NoFile]_vars

\* C10: stop() returns True exactly when it did not escalate to the forced
\* kill.
C10_StopResult ==
    [][\A r \in Runners :
          (Returns(r) /\ call[r] = "stop") =>
              (ret'[r] = "True" <=> rpc[r] # "st_kill")]_vars

\* C11: called in the same runner state with the same process behaviour, the
\* blocking wait and the async wait return the same boolean and leave the same
\* pid-file.
C11_WaitFormsAgree ==
    \A r \in Runners :
        rpc[r] = "idle" => FirstPass(r, "wait") = FirstPass(r, "wait_async")

(***************************************************************************)
(* Properties of Part III                                                  *)
(***************************************************************************)

\* The step in which thread t completes record_failure() on circuit n.
FailureDone(t, n) == tpc[t] = "write" /\ tpc'[t] = "idle" /\ tsvc[t] = n

Elapsed(n) == clock - circ[n].opened_at

Opened(n) == circ[n].opened_at # NotOpened

\* C14: a record_failure() on a closed circuit raises the failure count by
\* one, and is_open() is True after it exactly when the count, started from 0,
\* has reached max_failures.
C14_OpensAtThreshold ==
    [][\A t \in Threads, n \in Services :
          (FailureDone(t, n) /\ ~Opened(n)) =>
              /\ circ'[n].failures = circ[n].failures + 1
              /\ IsOpen(n)' <=> circ[n].failures + 1 >= circ[n].max_failures]_vars

C14_Witness ==
    /\ last = [op |-> "failure", svc |-> "vertex_ai", was |-> "CLOSED"]
    /\ circ["vertex_ai"].failures = DefaultMaxFailures
    /\ circ["vertex_ai"].opened_at = clock
    /\ IsOpen("vertex_ai")

C16_FailureReopens ==
    [][\A t \in Threads, n \in Services :
          (FailureDone(t, n) /\ IsHalfOpen(n)) => IsOpen(n)']_vars

\* C17: a record_success() on a HALF_OPEN circuit clears opened_at and sets
\* the failure count to zero, so that get_status() reports CLOSED.
C17_SuccessCloses ==
    [][\A n \in Services :
          (IsHalfOpen(n) /\ last' = Done("success", n) /\ circ' # circ) =>
              /\ circ'[n].opened_at = NotOpened
              /\ circ'[n].failures = 0
              /\ GetStatus(n)' = "CLOSED"]_vars

C17_Witness ==
    \E n \in Services :
        /\ last = [op |-> "success", svc |-> n, was |-> "HALF_OPEN"]
        /\ circ[n].failures = 0 /\ GetStatus(n) = "CLOSED"

\* C18: between calls, opened_at is set if and only if the failure count is
\* at least max_failures.
C18_OpenedIffThreshold ==
    \A n \in Services : Opened(n) <=> circ[n].failures >= circ[n].max_failures

C18_Witness ==
    \E n \in Services :
        /\ Opened(n) /\ circ[n].failures > circ[n].max_failures
        /\ last.op = "failure" /\ last.svc = n

\* C19: every record_failure() takes effect as in a sequential execution: it
\* stores the count it found plus one in the one circuit of its service name,
\* whatever other threads do meanwhile, and leaves the other circuits alone;
\* record_success() and reset() never run inside another call.
C19_NoLostUpdate ==
    [][/\ \A t \in Threads, n \in Services :
            FailureDone(t, n) =>
                /\ circ'[n] = AfterFailure(circ[n], circ[n].failures + 1)
                /\ \A m \in Services \ {n} : circ'[m] = circ[m]
       /\ (last' # last /\ last'.op \in {"success", "reset"}) =>
             \A t \in Threads : tpc[t] # "write"]_vars

C19_Witness ==
    \E t, u \in Threads :
        /\ t # u /\ tsvc[t] = tsvc[u]
        /\ tpc[t] = "write" /\ tpc[u] = "lock"
        /\ circ[tsvc[t]].failures > 0

(***************************************************************************)
(* Properties of Part IV                                                   *)
(***************************************************************************)

\* C20: check(e) returns False if and only if the spend recorded for the
\* current calendar day plus e is strictly greater than the daily budget, and
\* it leaves the ledger unchanged.
C20_BudgetCheck ==
    [][Check =>
          /\ cret' = "False" <=> ledger[day] + cest' > DailyBudget
          /\ ledger' = ledger]_vars

\* C21: whenever check() returns False, the vertex_ai circuit is OPEN
\* (is_open() is True) when the call returns, whatever state the circuit was
\* in before the call.
C21_RefusalOpensCircuit ==
    [][(Check /\ cret' = "False") => IsOpen("vertex_ai")']_vars

\* C22: within one calendar day the day's recorded spend never decreases, and
\* once check(e) has returned False every later check(e') of that day with
\* e' >= e returns False too.
C22_RefusalSticky ==
    [][/\ day' = day => ledger'[day] >= ledger[day]
       /\ (Check /\ \E e \in refused : cest' >= e) => cret' = "False"]_vars

\* C24: a record() adds its cost to the entry of the current calendar day and
\* to no other entry, and the spend that check() and get_report() read
\* afterwards is that of the current calendar day, also for a tracker
\* constructed on an earlier day.
C24_DailyRotation ==
    [][Record =>
          /\ ledger'[day] - ledger[day] \in Costs
          /\ \A d \in Days \ {day} : ledger'[d] = ledger[d]
          /\ GetSpentToday' = ledger'[day]]_vars

(***************************************************************************)
(* Properties of Part VI                                                   *)
(***************************************************************************)

\* The exact cost of a request, in units of 0.00000001 dollars.
Amount(tokens, model) == tokens * CostPer1K(model)

\* The float nearest to x plus amt units of 0.00000001 dollars.
NearestSum(x, amt) ==
    IF x = Zero THEN Nearest(Limbs(amt), <<10000, 10000>>, 0)
    ELSE Nearest(AddL(MulL(x.m, Limbs(10000 * 10000)),
                      ShiftUp(Limbs(amt), 0 - x.e)),
                 <<10000, 10000>>, x.e)

\* C23: when several writers call record() concurrently every call is
\* reflected: the save of a call leaves the stored spend increased by the
\* cost of the call and the request count by one, and the spend never goes
\* down.
C23_NoLostRecord ==
    [][\A w \in Writers : RecordSave(w) =>
          /\ book'.spent = FAdd(book.spent, CostOf(wcall[w].tokens, wcall[w].model))
          /\ book'.requests = book.requests + 1
          /\ book'.tokens >= book.tokens]_vars

\* C25: a record(tokens, model) that no other writer interferes with leaves
\* the spend at the old spend plus tokens/1000 times the price of the model
\* (the float nearest to that amount), the token count increased by tokens
\* and the request count by one; get_report() returns the stored spend,
\* remaining = budget - spent and percentage = spent / budget * 100 (the
\* float nearest to it).
C25_RecordAccounting ==
    [][/\ \A w \in Writers :
            (RecordSave(w) /\ wdata[w] = Credit(book, wcall[w].tokens, wcall[w].model))
            => /\ book'.spent =
                     NearestSum(book.spent, Amount(wcall[w].tokens, wcall[w].model))
               /\ book'.tokens = book.tokens + wcall[w].tokens
               /\ book'.requests = book.requests + 1
       /\ Report =>
            /\ report'.spent = book.spent
            /\ report'.remaining = FSub(FromInt(DailyBudget), book.spent)
            /\ report'.percentage =
                  Nearest(MulL(book.spent.m, Limbs(100)), <<DailyBudget>>,
                          book.spent.e)]_vars

(***************************************************************************)
(* Properties of Part VII                                                  *)
(***************************************************************************)

\* C26: after record(key, op) has returned, check(key, op) returns True at
\* every time before the TTL has elapsed since that record and False once it
\* has elapsed, whatever record() and invalidate() calls for other keys other
\* store instances make in between or concurrently.
C26_HitUntilExpiry ==
    [][\A c \in Callers : StoreCheck(c) =>
          \A t \in recorded[ikey'[c]] :
             iret'[c] = IF hour - t < TtlHours THEN "True" ELSE "False"]_vars

\* C27: a record older than its TTL is exposed by no read: check() returns
\* False for its key and get_cached_result() returns None.
C27_ExpiredAbsent ==
    [][\A c \in Callers :
          LET entry == idem[ikey'[c]]
              expired == entry.kind = "iso" /\ hour - entry.at > TtlHours
          IN  /\ (StoreCheck(c) /\ expired) => iret'[c] = "False"
              /\ (GetCachedResult(c) /\ expired) => iret'[c] = "None"]_vars

(***************************************************************************)
(* Properties of Part V                                                    *)
(***************************************************************************)

\* C12: a monitor_task call on a created task whose record has never
\* received a last_heartbeat, while a process of the task has been running
\* for more than heartbeat_timeout, goes on to stop the process (and report
\* the task as not alive) instead of returning True.
C12_SilentTaskDetected ==
    [][(/\ MonitorCall
        /\ HasMeta
        /\ meta.last_heartbeat.kind = "none"
        /\ \E i \in aged : proc[i] = "run") => mpc' = "stopping"]_vars

\* C13: monitor_task finding a parsable last_heartbeat older than
\* heartbeat_timeout stops the task's process, and when it returns the
\* processes that ran at the call are not running, the record has
\* status = failed and reason = heartbeat_timeout, and the value is False;
\* finding the heartbeat within the timeout or unparsable, it returns True and
\* changes neither the processes nor the record.
C13_StaleHeartbeat ==
    [][/\ (MonitorCall /\ HasMeta /\ meta.last_heartbeat.kind # "none") =>
            IF /\ meta.last_heartbeat.kind = "iso"
               /\ clock - meta.last_heartbeat.at > HeartbeatTimeout
            THEN mpc' = "stopping"
            ELSE mret' = "True" /\ mpc' = "idle" /\ UNCHANGED <<meta, proc>>
       /\ MonitorFinish =>
            /\ mret' = "False"
            /\ meta'.status = "failed" /\ meta'.reason = "heartbeat_timeout"
            /\ \A i \in mseen : proc'[i] # "run"]_vars

(***************************************************************************)
(* Properties of Part VIII                                                 *)
(***************************************************************************)

\* The workspace the next turn of the loop handles qualifies: the metadata
\* listed for it has status completed and a score, 0 when missing, at or above
\* the threshold.
NextQualifies ==
    LET m == Head(slist).meta
        score == IF m.xp_reward = {} THEN 0 ELSE CHOOSE n \in m.xp_reward : TRUE
    IN  m.status = "completed" /\ score >= MinXp

Total(t3) == t3.merged + t3.skipped + t3.failed

C29_RemovesOnlyMerged ==
    [][/\ SweepTask =>
            LET t == Head(slist).task_id
            IN  /\ (wdir[t] /\ ~wdir'[t]) => slast'.merged
                /\ ~slast'.merged =>
                      /\ wdir'[t] = wdir[t]
                      /\ branch'[t] = branch[t]
                      /\ tmeta'[t] = tmeta[t]
                /\ \A u \in Tasks \ {t} :
                      /\ wdir'[u] = wdir[u]
                      /\ branch'[u] = branch[u]
                      /\ tmeta'[u] = tmeta[u]
                /\ Total(tally') + Len(slist') = Total(tally) + Len(slist)
       /\ SweepStart =>
            /\ Total(tally') = 0
            /\ Len(slist') = Cardinality({t \in Tasks : wdir[t]})
       /\ SweepEnd => slist = <<>> /\ tally' = tally]_vars

\* A non-dry-run sweep over two qualifying workspaces has returned: one was
\* merged and removed, the merge of the other failed and it is still there.
C29_Witness ==
    /\ spc = "idle" /\ ~sdry /\ halfdays = 0
    /\ tally = [merged |-> 1, skipped |-> 0, failed |-> 1]
    /\ \E t \in Tasks, u \in Tasks :
          /\ ~wdir[t] /\ inMain[t]
          /\ wdir[u] /\ branch[u] /\ ~inMain[u]

\* C30: a non-dry-run cleanup pass whose removals all complete removes every
\* listed workspace older than max_age_days, whatever its status and score,
\* and no workspace whose age is within max_age_days.
C30_AgeBasedCleanup ==
    [][CleanupWith(FALSE, [t \in Tasks |-> "ok"]) =>
          \A t \in Tasks :
             wdir[t] => (wdir'[t] <=> ~(halfdays > 2 * MaxAgeDays))]_vars

(***************************************************************************)
(* Further properties of Part III                                          *)
(***************************************************************************)

\* A record_success() on the circuit of service n completes in this step.
SuccessDone(n) == (\E t \in Threads : RecordSuccess(t)) /\ last' = Done("success", n)

\* C33: a record_success() while the circuit is OPEN (is_open() True) leaves
\* opened_at and the failure count as they are; opened_at is cleared only by
\* a record_success() once the half-open window has elapsed or by reset().
C33_ClosesOnlyFromHalfOpen ==
    [][\A n \in Services :
          /\ (SuccessDone(n) /\ IsOpen(n)) =>
                /\ circ'[n].opened_at = circ[n].opened_at
                /\ circ'[n].failures = circ[n].failures
          /\ (Opened(n) /\ circ'[n].opened_at = NotOpened) =>
                \/ SuccessDone(n) /\ IsHalfOpen(n)
                \/ last' = Done("reset", n)]_vars

\* C40: a record_success() on a CLOSED circuit leaves the circuit, its
\* failure count included, as it is, and a record_failure() on a CLOSED
\* circuit opens it exactly when the count it finds plus one reaches
\* max_failures, whatever successes came between the failures.
C40_FailuresInAggregate ==
    [][\A n \in Services :
          /\ (SuccessDone(n) /\ ~Opened(n)) => circ'[n] = circ[n]
          /\ \A t \in Threads :
                (FailureDone(t, n) /\ ~Opened(n)) =>
                    (Opened(n)' <=> circ[n].failures + 1 >= circ[n].max_failures)]_vars

\* A success has just been recorded on a closed circuit that is one failure
\* short of its threshold, and the count is still there.
C40_Witness ==
    \E n \in Services :
        /\ last = [op |-> "success", svc |-> n, was |-> "CLOSED"]
        /\ circ[n].failures > 0
        /\ circ[n].failures = circ[n].max_failures - 1
        /\ ~Opened(n)

(***************************************************************************)
(* Further properties of Part VII                                          *)
(***************************************************************************)

\* The record() of caller c that saves in this step ran alone: no other call
\* was under way and the copy it saves was made from the file as it is.
AloneRecord(c) ==
    /\ StoreRecordSave(c)
    /\ \A d \in Callers \ {c} : ipc[d] = "idle"
    /\ idata[c] = [CleanupExpired(idem) EXCEPT ![ikey[c]] = idata[c][ikey[c]]]

\* C34: with the calls made one at a time, after a check() or a record() the
\* file holds no record that was older than the TTL when the call was made,
\* and every record that was within its TTL is still there unchanged
\* (record() replacing the record of its own key).
C34_LazyPurge ==
    [][\A c \in Callers :
          /\ StoreCheck(c) =>
                \A k \in Keys :
                   /\ (idem[k].kind = "iso" /\ hour - idem[k].at > TtlHours)
                         => idem'[k] = NoRecord
                   /\ (idem[k].kind = "iso" /\ hour - idem[k].at < TtlHours)
                         => idem'[k] = idem[k]
          /\ AloneRecord(c) =>
                \A k \in Keys \ {ikey[c]} :
                   /\ (idem[k].kind = "iso" /\ hour - idem[k].at > TtlHours)
                         => idem'[k] = NoRecord
                   /\ (idem[k].kind = "iso" /\ hour - idem[k].at < TtlHours)
                         => idem'[k] = idem[k]]_vars

(***************************************************************************)
(* Further properties of Part II                                           *)
(***************************************************************************)

\* C35: a start() that passes its checks appends its banner to agent.log:
\* the banners and the output of the earlier runs are still in the file, which
\* then holds one banner more than before.
C35_LogAppendOnly ==
    [][\A r \in Runners :
          (StartCheck(r) /\ rpc'[r] = "spawn") => logfile' = logfile + 1]_vars

\* C37: at most one process of the task runs at any time, and while no
\* start() is between its spawn and its pid-file write the pid-file names the
\* running process.
C37_OneSupervisedProcess ==
    /\ Cardinality({i \in Pids : proc[i] = "run"}) <= 1
    /\ \A i \in Pids :
          (/\ proc[i] = "run"
           /\ \A r \in Runners : rpc[r] \notin {"pidopen", "pidwrite"})
          => pidfile = i

(***************************************************************************)
(* Further properties of Part V                                            *)
(***************************************************************************)

\* C38: no step of monitor_task changes the record of a task whose status is
\* completed or failed.
C38_FinishedTaskUntouched ==
    [][((MonitorCall \/ MonitorFinish) /\ meta.status \in {"completed", "failed"})
          => meta' = meta]_vars

C31_DirectoryIffBranch == \A t \in Tasks : wdir[t] <=> branch[t]

(***************************************************************************)
(* Properties of Part IX                                                   *)
(***************************************************************************)
\* C36: a batch run with waiting returns; a poll removes from the active set
\* every task whose process has ended (also one the runner has not reaped) or
\* that has run for BatchTimeout seconds; on return completed + failed +
\* remaining is the number of pending tasks.
C36_BatchTerminates ==
    /\ <>(bpc = "done")
    /\ [][BatchPoll =>
            \A t \in bactive :
               (bproc[t] # "run" \/ belapsed[t] >= BatchTimeout) => t \notin bactive']_vars
    /\ [](bpc = "done" =>
            btally.completed + btally.failed + Len(bqueue) = btally.pending)

\* C39: the async pipeline reports PASS only if start() of its runner did not
\* raise and the process that runner started has ended with exit code 0.
C39_PassOnlyForSuccess ==
    pstatus = "PASS" =>
       /\ pstart = "ok"
       /\ handle[PipeRunner] # 0
       /\ proc[handle[PipeRunner]] # "run"
       /\ code[handle[PipeRunner]] = 0

====
